---- MODULE Spec2Model ----
(***************************************************************************)
(* A model of linux/vr_host_interface.c of the vrouter kernel module: the  *)
(* egress path (linux_if_tx, linux_xmit_segment, linux_xmit,               *)
(* linux_inet_fragment, linux_xmit_segments), the RPS queue selection      *)
(* (linux_get_rxq and its callers) and the per-vif GRO input queue         *)
(* (linux_enqueue_pkt_for_gro, vr_napi_poll).                              *)
(*                                                                         *)
(* C "unsigned int" values are kept as mathematical integers; a value      *)
(* below zero stands for the wrapped value 2^32 + v (TLC's integers do not *)
(* reach 2^32).  The operators that read such a value (UDiv, UMod,         *)
(* ToU16) treat it as the C value.                                         *)
(***************************************************************************)
EXTENDS Integers, Sequences, FiniteSets, TLC

----------------------------------------------------------------------------
(* Program and kernel constants                                            *)

ETH_HLEN == 14
IP_MF == 8192
IP_OFFSET == 8191
IPPROTO_UDP == 17
IPPROTO_GRE == 47
IPPROTO_TCP == 6
ENOMEM == 12
U16 == 65536

VIF_TYPE_PHYSICAL == "VIF_TYPE_PHYSICAL"
VIF_TYPE_VIRTUAL == "VIF_TYPE_VIRTUAL"
VIF_TYPE_HOST == "VIF_TYPE_HOST"
VP_TYPE_IP == "VP_TYPE_IP"
VP_TYPE_IPOIP == "VP_TYPE_IPOIP"
VP_TYPE_NULL == "VP_TYPE_NULL"
ETH_P_IP == "ETH_P_IP"
ETH_P_IPV6 == "ETH_P_IPV6"
CHECKSUM_NONE == "CHECKSUM_NONE"
CHECKSUM_PARTIAL == "CHECKSUM_PARTIAL"

----------------------------------------------------------------------------
(* Bounds of the model                                                     *)

\* largest IP payload (bytes after the IP header) of a packet given to
\* linux_if_tx
MaxPayload == 3300
\* and the largest payload as a multiple of the device's MTU
MaxMtus == 5
\* nesting depth of linux_xmit -> linux_inet_fragment the model follows
MaxDepth == 3

\* MTUs of the egress device
MTUs == {200, 1500}
\* fragment offsets (in bytes) the packet given to linux_if_tx already has
Offsets == {0, 62000}
\* (vp_type, mac_len, outer protocol): a plain IP packet has its IP header
\* right after the Ethernet header; a tunnelled packet has Ethernet + outer
\* IP + (UDP | GRE) + MPLS in front of the inner IP header
Encaps == { <<VP_TYPE_IP, ETH_HLEN, 0>>,
            <<VP_TYPE_IPOIP, ETH_HLEN + 20 + 8 + 4, IPPROTO_UDP>>,
            <<VP_TYPE_IPOIP, ETH_HLEN + 20 + 4 + 4, IPPROTO_GRE>> }

----------------------------------------------------------------------------
(* unsigned arithmetic                                                     *)

\* x & ~7U
AndNot7(x) == x - (x % 8)
\* a / b and a % b of two unsigned ints, a not wrapped, b # 0
UDiv(a, b) == IF b < 0 THEN 0 ELSE a \div b
UMod(a, b) == IF b < 0 THEN a ELSE a % b
\* the value kept by an unsigned short
ToU16(x) == x % U16

----------------------------------------------------------------------------
(* Packets                                                                 *)
(*                                                                         *)
(* An skb is a record: id (the buffer), len, mac_len, protocol, ip_summed, *)
(* gso_size, csum_start/csum_offset, udp_len, and hdr, the IP headers in   *)
(* its data by byte offset from skb->data: the header at mac_len is the    *)
(* one ip_hdr(skb) names (linux_if_tx sets the network header to the inner *)
(* IP header and mac_len to its offset); the header at ETH_HLEN is the one *)
(* linux_xmit_segment rewrites.  For a plain IP packet the two are one.    *)

\* ip_fast_csum over the header words the model keeps
Fold16(s) == (s % U16) + (s \div U16)
ip_fast_csum(h) ==
    (U16 - 1) - Fold16(Fold16((4 * 16 + h.ihl) * 256 + h.tot_len + h.id
                              + h.frag_off + 64 * 256 + h.proto))

IpHdr(ihl, tot_len, id, frag_off, proto) ==
    LET h == [ihl |-> ihl, tot_len |-> tot_len, id |-> id,
              frag_off |-> frag_off, proto |-> proto, check |-> 0]
    IN  [h EXCEPT !.check = ip_fast_csum(h)]

ip_hdr(skb) == skb.hdr[skb.mac_len]

\* the packet linux_if_tx builds from a vr_packet of the given type whose
\* (inner) IP header has the given identifier, fragment field and payload;
\* vp_flags are the flags of the vr_packet that linux_if_tx tests
\* (VP_FLAG_GRO, VP_FLAG_GSO; VP_FLAG_CSUM_PARTIAL shows as ip_summed)
MkSkb(enc, ihl, id, mf, off, payload, summed) ==
    LET type == enc[1]
        mac_len == enc[2]
        len == mac_len + ihl * 4 + payload
        inner == IpHdr(ihl, ihl * 4 + payload, id,
                       (off \div 8) + (IF mf THEN IP_MF ELSE 0), IPPROTO_UDP)
        outer == IpHdr(5, len - ETH_HLEN, 0, 0, enc[3])
    IN  [id |-> 0, len |-> len, mac_len |-> mac_len, protocol |-> ETH_P_IP,
         ip_summed |-> summed, gso_size |-> 0, vp_flags |-> {}, next |-> 0,
         csum_start |-> 0, csum_offset |-> 0, udp_len |-> 0,
         hdr |-> [o \in {ETH_HLEN, mac_len} |->
                     IF o = mac_len THEN inner ELSE outer]]

----------------------------------------------------------------------------
(* linux_inet_fragment: the fragment size                                  *)

\* FragSize without the rounding of line 192 (a faulty variant, for the
\* sensitivity check of FragSizeMultipleOf8)
FragSize_NoRound(mtu, mac_len, ip_hlen, payload_size) ==
    LET frag_size0 == AndNot7(mtu - mac_len - ip_hlen)
        num_frags == UDiv(payload_size, frag_size0)
        last_frag_len == UMod(payload_size, frag_size0)
    IN  IF frag_size0 = 0 THEN [size |-> 0, oops |-> TRUE]
        ELSE IF last_frag_len # 0 /\ last_frag_len < 64
        THEN IF num_frags = 0
             THEN [size |-> frag_size0, oops |-> TRUE]
             ELSE [size |-> frag_size0
                            - ((64 - last_frag_len) \div num_frags) - 1,
                   oops |-> FALSE]
        ELSE [size |-> frag_size0, oops |-> FALSE]

\* lines 165-193: [size, oops]; oops is a division by zero
FragSize(mtu, mac_len, ip_hlen, payload_size) ==
    LET frag_size0 == AndNot7(mtu - mac_len - ip_hlen)
    IN  IF frag_size0 = 0
        THEN [size |-> 0, oops |-> TRUE]
        ELSE
        LET num_frags == UDiv(payload_size, frag_size0)
            last_frag_len == UMod(payload_size, frag_size0)
        IN  IF last_frag_len # 0 /\ last_frag_len < 64
            THEN IF num_frags = 0
                 THEN [size |-> frag_size0, oops |-> TRUE]
                 ELSE [size |-> AndNot7(frag_size0
                                   - ((64 - last_frag_len) \div num_frags) - 1),
                       oops |-> FALSE]
            ELSE [size |-> frag_size0, oops |-> FALSE]

----------------------------------------------------------------------------
(* State.  Three parts of the file are modelled, each with its own         *)
(* variables: the egress path (tx_), one call of linux_get_rxq (rq_) and   *)
(* the receive path (rx_).                                                 *)

\* tx_vif: the interface (type, os: its net_device or "NULL", the device's
\* mtu and hard_header_len); tx_type: vp_type of the packet; tx_skb: the
\* packet; tx_env: what the kernel calls will answer; tx_pc: "ready" before
\* linux_if_tx has run, "done" after; tx_err: what linux_xmit_segment
\* returned to linux_if_tx; tx_ret: what linux_if_tx returned
VARIABLES tx_vif, tx_type, tx_skb, tx_env, tx_pc, tx_st, tx_err, tx_ret

txvars == <<tx_vif, tx_type, tx_skb, tx_env, tx_pc, tx_st, tx_err, tx_ret>>

\* One call of linux_get_rxq on its own: rq_topo, the topology; rq_skb,
\* the packet (rxhash, dev, queue_mapping and the vif_idx and vif_rid kept
\* in skb->cb); rq_curr and rq_prev, the arguments curr_cpu and prev_cpu;
\* rq_pc, "ready" before the call and "done" after; rq_rxq, what the call
\* stored in *rxq
VARIABLES rq_topo, rq_skb, rq_curr, rq_prev, rq_pc, rq_rxq

rqvars == <<rq_topo, rq_skb, rq_curr, rq_prev, rq_pc, rq_rxq>>

(* rx_topo: the topology.  rx_cfg: vr_perfr1..3 and vr_perfq1..3.          *)
(* rx_vifs: the interfaces of router 0 by vif_idx (type, os: the device or *)
(* "NULL").  rx_pkts: the packets; each is a record of its skb, where it   *)
(* is (loc), the cpu it is on, the interface it is handled for (vif), the  *)
(* interface the datapath sends it to (out) and whether it does so with    *)
(* VP_FLAG_GRO (gro), the cpu it was first received on (recv_cpu), the     *)
(* flow hash it arrived with (flow), the cpu an earlier steering stage     *)
(* recorded in rxhash (from_cpu, -1 if none) and why it was dropped; also   *)
(* the interface it arrived on (arrived), how many times linux_rx_handler  *)
(* relayed it (relayed), the interface whose vif_rx received it (rcv, -1   *)
(* if none), what the lookups of lines 809-815 returned (lookup) and, from *)
(* its arrival on pkt_rps_dev, the value of vr_perfr3 and the record of    *)
(* the interface it arrived on at that moment (dest); the steering stage   *)
(* that last sent it to pkt_rps_dev and the interface it did so for        *)
(* (steer), what pkt_rps_dev_rx_handler last made of it (hop), and how     *)
(* many times it was given to pkt_rps_dev, counted up to MaxHops (hops).   *)
(* rx_inputq: vr_skb_inputq of the virtual interface, packet ids in queue  *)
(* order.  rx_napi: its vr_napi: NAPI_STATE_SCHED (sched), whether it is   *)
(* on a poll list (listed), NAPI_STATE_DISABLE (disable) and whether it is *)
(* on the device's napi list (registered).  rx_poll: the                   *)
(* running or last call of vr_napi_poll: pc, quota, budget, ret, whether   *)
(* skb_dequeue found the queue empty (drained), whether napi_complete was  *)
(* called (completed), and the length of the queue (len0) and the number   *)
(* of packets appended so far (enq0) when the call began.  rx_pending: the *)
(* packets whose enqueuer has appended them and not yet called             *)
(* napi_schedule.  rx_budgets: the budgets the scheduler polls with.       *)
(* rx_log: the queue selections made so far.  rx_enq: packet ids in the    *)
(* order they were appended.  rx_sub: packet ids in the order they were    *)
(* handed to napi_gro_receive.  rx_del: linux_if_del of the virtual        *)
(* interface: pc ("none" when it is not called, "start" before it runs,    *)
(* then the step it has completed), and the number of packets appended     *)
(* (enq0) when it began and of packets submitted (sub0) when it returned.  *)

VARIABLES rx_topo, rx_cfg, rx_vifs, rx_pkts, rx_inputq, rx_napi, rx_poll,
          rx_pending, rx_budgets, rx_log, rx_enq, rx_sub, rx_del

rxvars == <<rx_topo, rx_cfg, rx_vifs, rx_pkts, rx_inputq, rx_napi, rx_poll,
            rx_pending, rx_budgets, rx_log, rx_enq, rx_sub, rx_del>>

(* The receive hook and the rtnl lock.  tap_rtnl: who holds the rtnl       *)
(* mutex: "none", "caller" (the context that calls linux_if_add_tap or     *)
(* linux_if_del_tap) or "other" (any other thread).  tap_dev: rx_handler   *)
(* of the device.  tap_t: the call: pc, what is called (op), vif_os (os),  *)
(* i_locked, the value returned (ret); also who held the mutex when the    *)
(* call was entered (entry), whether the call registered or unregistered   *)
(* (did) and who held the mutex when it did (did_owner), and who held it   *)
(* when the call returned (exit).                                          *)
VARIABLES tap_rtnl, tap_dev, tap_t

tapvars == <<tap_rtnl, tap_dev, tap_t>>

vars == <<txvars, rqvars, rxvars, tapvars>>

----------------------------------------------------------------------------
(* The egress path.  Its state is threaded through the calls as a record   *)
(* st: wire (the skbs dev_queue_xmit took, in order), freed (the ids of    *)
(* the buffers freed, in order), frags (the segment lists                  *)
(* linux_inet_fragment handed to linux_xmit_segments), mss (the gso_size   *)
(* it handed to skb_segment for each of them), gen (calls of               *)
(* vr_generate_unique_ip_id so far), nid (next buffer id), xmits (calls of *)
(* dev_queue_xmit so far), leaked (buffers neither sent nor freed when     *)
(* their owner returned), oops (the kernel stopped in this call), gro (the *)
(* ids of the buffers handed to linux_enqueue_pkt_for_gro), calls (one     *)
(* record per call of linux_xmit_segments: the ids of its list, the length *)
(* of wire when it was entered and when it returned, and what it           *)
(* returned), gso (the gso_size linux_gso_xmit gave skb_gso_segment),      *)
(* depth (for each list of fragments, how many calls of                    *)
(* linux_inet_fragment were open when it was made) and deep (the nesting   *)
(* went beyond MaxDepth).  The                                             *)
(* kernel                                                                  *)
(* calls answer as the record env says: skb_checksum_help and skb_segment  *)
(* fail or not, the xmit_fail_at-th dev_queue_xmit fails (0: none),        *)
(* pskb_may_pull fails or not, skb_gso_segment returns a list, an error or *)
(* NULL (gso_result), the skb_pull of line 666 fails or not.               *)


St0 == [wire |-> <<>>, freed |-> <<>>, gro |-> <<>>, calls |-> <<>>,
        frags |-> <<>>, mss |-> <<>>, gso |-> <<>>, gen |-> 0, nid |-> 1,
        depth |-> <<>>, deep |-> FALSE,
        xmits |-> 0, leaked |-> {}, oops |-> FALSE]

\* no failure injected by the environment
NoFaults == [csum_help_fails |-> FALSE, segment_fails |-> FALSE,
             xmit_fail_at |-> 0, pull_fails |-> FALSE,
             gso_result |-> "segs", skb_pull_fails |-> FALSE]

kfree_skb(skb, st) == [st EXCEPT !.freed = Append(@, skb.id)]

\* dev_queue_xmit consumes the skb: the device takes it, or it is dropped
\* (and freed) and a non-zero code returned
dev_queue_xmit(skb, st, env) ==
    LET n == st.xmits + 1
    IN  IF env.xmit_fail_at = n
        THEN [st |-> [st EXCEPT !.xmits = n, !.freed = Append(@, skb.id)],
              ret |-> 1]
        ELSE [st |-> [st EXCEPT !.xmits = n, !.wire = Append(@, skb)],
              ret |-> 0]

\* skb_segment (kernel): the payload behind the pulled headers cut into
\* pieces of gso_size bytes, the last one shorter; every piece is a new
\* buffer that starts with a copy of the headers
SegPayload(plen, mss, i) ==
    IF i * mss <= plen THEN mss ELSE plen - (i - 1) * mss

skb_segment(skb, hlen, nid) ==
    LET plen == skb.len - hlen
        mss == skb.gso_size
        n == (plen + mss - 1) \div mss
    IN  [i \in 1..n |->
            [skb EXCEPT !.id = nid + i - 1,
                        !.next = IF i < n THEN nid + i ELSE 0,
                        !.len = hlen + SegPayload(plen, mss, i),
                        !.gso_size = 0]]

\* MoreFrags ignoring that the packet was itself a fragment (a faulty
\* variant, for the sensitivity check of MoreFragmentsFlag)
MoreFrags_NextOnly(has_next, fragmented) == has_next

\* lines 227-228
MoreFrags(has_next, fragmented) == has_next \/ fragmented

\* StampFrag storing the byte offset unshifted (a faulty variant, for the
\* sensitivity check of OffsetsContiguous)
StampFrag_NoShift(seg, ip_id, offset, mf) ==
    LET ip == ip_hdr(seg)
        off16 == ToU16(offset)
        frag_off == IF mf /\ (off16 \div IP_MF) % 2 = 0
                    THEN off16 + IP_MF ELSE off16
        h == [ip EXCEPT !.id = ToU16(ip_id), !.frag_off = frag_off,
                        !.tot_len = ToU16(seg.len - seg.mac_len),
                        !.check = 0]
    IN  [seg EXCEPT !.hdr[seg.mac_len] = [h EXCEPT !.check = ip_fast_csum(h)]]

\* lines 224-232: the header of one fragment
StampFrag(seg, ip_id, offset, mf) ==
    LET ip == ip_hdr(seg)
        off16 == ToU16(offset \div 8)
        frag_off == IF mf /\ (off16 \div IP_MF) % 2 = 0
                    THEN off16 + IP_MF ELSE off16
        h == [ip EXCEPT !.id = ToU16(ip_id), !.frag_off = frag_off,
                        !.tot_len = ToU16(seg.len - seg.mac_len),
                        !.check = 0]
    IN  [seg EXCEPT !.hdr[seg.mac_len] = [h EXCEPT !.check = ip_fast_csum(h)]]

\* NextOffset counting the IP header as payload (a faulty variant, for the
\* sensitivity check of Example3200)
NextOffset_WithHeader(offset, seg) == offset + (seg.len - seg.mac_len)

\* line 229
NextOffset(offset, seg) ==
    offset + (seg.len - seg.mac_len - ip_hdr(seg).ihl * 4)

\* lines 223-233: the do-while loop over the segment list, from segment i
RECURSIVE StampFrags(_, _, _, _, _)
StampFrags(segs, i, ip_id, offset, fragmented) ==
    IF i > Len(segs) THEN segs
    ELSE LET seg == StampFrag(segs[i], ip_id, offset,
                              MoreFrags(i < Len(segs), fragmented))
         IN  StampFrags([segs EXCEPT ![i] = seg], i + 1, ip_id,
                        NextOffset(offset, segs[i]), fragmented)

pskb_may_pull(seg, n, env) == n <= seg.len /\ ~env.pull_fails

\* skb_partial_csum_set (kernel): refuses offsets outside the data
skb_partial_csum_set(seg, start, off) ==
    IF start + off + 2 > seg.len
    THEN [ok |-> FALSE, seg |-> seg]
    ELSE [ok |-> TRUE,
          seg |-> [seg EXCEPT !.ip_summed = CHECKSUM_PARTIAL,
                              !.csum_start = start, !.csum_offset = off]]

\* vr_generate_unique_ip_id: the n-th identifier handed out
UniqueIpId(n) == ToU16(n)

RECURSIVE linux_xmit_segment(_, _, _, _, _, _)
RECURSIVE linux_xmit(_, _, _, _, _, _)
RECURSIVE linux_inet_fragment(_, _, _, _, _, _)
RECURSIVE XmitSegmentsFrom(_, _, _, _, _, _, _)

\* FreeRest leaving the rest of the list alone (a faulty variant, for the
\* sensitivity check of PartialBatchFailure)
FreeRest_None(segs, i, st) == st

\* lines 332-338: free what is left of the list after segment i
RECURSIVE FreeRest(_, _, _)
FreeRest(segs, i, st) ==
    IF i >= Len(segs) THEN st
    ELSE FreeRest(segs, i + 1, kfree_skb(segs[i + 1], st))

\* Detach leaving the segment linked to its successor (a faulty variant,
\* for the sensitivity check of InListOrder)
Detach_Keep(seg) == seg

\* lines 325-326: segs->next = NULL; next is the id of the following
\* buffer, 0 for NULL
Detach(seg) == [seg EXCEPT !.next = 0]

\* lines 324-340: the loop of linux_xmit_segments, at segment i
XmitSegmentsFrom(vif, segs, i, type, st, env, d) ==
    LET r == linux_xmit_segment(vif, Detach(segs[i]), type, st, env, d)
    IN  IF r.st.oops THEN r
        ELSE IF r.ret # 0
        THEN [st |-> FreeRest(segs, i, r.st), ret |-> r.ret]
        ELSE IF i = Len(segs) THEN r
        ELSE XmitSegmentsFrom(vif, segs, i + 1, type, r.st, env, d)

\* the record of a call of linux_xmit_segments, opened when it is entered
\* and closed with its result r when it returns
OpenCall(segs, st) ==
    [st EXCEPT !.calls =
        Append(@, [segs |-> [i \in 1..Len(segs) |-> segs[i].id],
                   w0 |-> Len(st.wire), w1 |-> Len(st.wire), ret |-> 0])]
CloseCall(k, r) ==
    [st |-> [r.st EXCEPT !.calls[k].w1 = Len(r.st.wire),
                         !.calls[k].ret = r.ret],
     ret |-> r.ret]

\* lines 317-341
linux_xmit_segments(vif, segs, type, st, env, d) ==
    CloseCall(Len(st.calls) + 1,
              XmitSegmentsFrom(vif, segs, 1, type, OpenCall(segs, st), env, d))

\* lines 156-237
linux_inet_fragment(vif, skb, type, st, env, d) ==
    LET ip == ip_hdr(skb)
        ip_hlen == ip.ihl * 4
        fragmented == (ip.frag_off \div IP_MF) % 2 = 1
        offset == (ip.frag_off % (IP_OFFSET + 1)) * 8
        ip_id == ip.id
        payload_size == skb.len - skb.mac_len - ip_hlen
        fs == FragSize(vif.mtu, skb.mac_len, ip_hlen, payload_size)
    IN  IF fs.oops
        THEN [st |-> [st EXCEPT !.oops = TRUE], ret |-> 0]
        ELSE IF d >= MaxDepth
        THEN [st |-> [st EXCEPT !.oops = TRUE, !.deep = TRUE], ret |-> 0]
        ELSE IF skb.ip_summed = CHECKSUM_PARTIAL /\ env.csum_help_fails
        THEN [st |-> kfree_skb(skb, st), ret |-> 0]
        ELSE
        LET skb1 == [skb EXCEPT !.ip_summed = CHECKSUM_NONE,
                                !.gso_size = ToU16(fs.size)]
        IN  IF skb1.gso_size = 0
            THEN [st |-> [st EXCEPT !.oops = TRUE], ret |-> 0]
            ELSE IF env.segment_fails
            THEN [st |-> [st EXCEPT !.leaked = @ \cup {skb.id}],
                  ret |-> -ENOMEM]
            ELSE
            LET raw == skb_segment(skb1, skb.mac_len + ip_hlen, st.nid)
                segs == StampFrags(raw, 1, ip_id, offset, fragmented)
                st1 == [kfree_skb(skb, st) EXCEPT !.nid = @ + Len(raw),
                                                  !.frags = Append(@, segs),
                                                  !.depth = Append(@, d),
                                                  !.mss = Append(@, skb1.gso_size)]
            IN  linux_xmit_segments(vif, segs, type, st1, env, d + 1)

\* lines 239-254
linux_xmit(vif, skb, type, st, env, d) ==
    IF vif.type # VIF_TYPE_PHYSICAL
       \/ skb.len <= vif.mtu + vif.hard_header_len
    THEN dev_queue_xmit(skb, st, env)
    ELSE IF skb.protocol = ETH_P_IP
    THEN linux_inet_fragment(vif, skb, type, st, env, d)
    ELSE [st |-> kfree_skb(skb, st), ret |-> -ENOMEM]

\* TunnelFixup writing the length and the identifier into the header
\* ip_hdr(seg) names instead of the one at ETH_HLEN (a faulty variant, for
\* the sensitivity check of SharedIpId)
TunnelFixup_AtNetworkHeader(seg, gen, env) ==
    LET iph == ip_hdr(seg)
        h1 == [iph EXCEPT !.tot_len = ToU16(seg.len - ETH_HLEN),
                          !.id = UniqueIpId(gen + 1), !.check = 0]
    IN  [ok |-> TRUE,
         seg |-> [seg EXCEPT !.hdr[seg.mac_len] =
                                 [h1 EXCEPT !.check = ip_fast_csum(h1)]],
         gen |-> gen + 1]

\* lines 275-308: the outer header of a tunnelled segment rewritten
\* (after the first pskb_may_pull); [ok, seg, gen]
TunnelFixup(seg, gen, env) ==
    LET iph == seg.hdr[ETH_HLEN]
        iphlen == iph.ihl * 4
        h1 == [iph EXCEPT !.tot_len = ToU16(seg.len - ETH_HLEN),
                          !.id = UniqueIpId(gen + 1)]
        seg1 == [seg EXCEPT !.hdr[ETH_HLEN] = h1]
    IN  IF ~pskb_may_pull(seg1, ETH_HLEN + iphlen, env)
        THEN [ok |-> FALSE, seg |-> seg1, gen |-> gen + 1]
        ELSE IF iph.proto = IPPROTO_UDP
        THEN IF ~pskb_may_pull(seg1, ETH_HLEN + iphlen + 8, env)
             THEN [ok |-> FALSE, seg |-> seg1, gen |-> gen + 1]
             ELSE LET pc == skb_partial_csum_set(seg1, iphlen + ETH_HLEN, 6)
                      h2 == [h1 EXCEPT !.check = 0]
                  IN  IF ~pc.ok
                      THEN [ok |-> FALSE, seg |-> seg1, gen |-> gen + 1]
                      ELSE [ok |-> TRUE,
                            seg |-> [pc.seg EXCEPT
                                !.udp_len = ToU16(seg.len - (iphlen + ETH_HLEN)),
                                !.hdr[ETH_HLEN] =
                                    [h2 EXCEPT !.check = ip_fast_csum(h2)]],
                            gen |-> gen + 1]
        ELSE IF iph.proto = IPPROTO_GRE
        THEN LET h2 == [h1 EXCEPT !.check = 0]
             IN  [ok |-> TRUE,
                  seg |-> [seg1 EXCEPT !.hdr[ETH_HLEN] =
                                  [h2 EXCEPT !.check = ip_fast_csum(h2)]],
                  gen |-> gen + 1]
        ELSE [ok |-> TRUE, seg |-> seg1, gen |-> gen + 1]

\* BeforeFixup with the size test reversed (a faulty variant, for the
\* sensitivity check of FixupWhenItFits)
BeforeFixup_WhenItFits(len, room, type) ==
    len <= room \/ type # VP_TYPE_IPOIP

\* lines 266-268: the segment goes to linux_xmit as it is
BeforeFixup(len, room, type) ==
    len > room \/ type # VP_TYPE_IPOIP

\* lines 256-315
linux_xmit_segment(vif, seg, type, st, env, d) ==
    IF BeforeFixup(seg.len, vif.mtu + vif.hard_header_len, type)
    THEN linux_xmit(vif, seg, type, st, env, d)
    ELSE IF ~pskb_may_pull(seg, ETH_HLEN + 20, env)
    THEN [st |-> kfree_skb(seg, st), ret |-> -ENOMEM]
    ELSE LET f == TunnelFixup(seg, st.gen, env)
             st1 == [st EXCEPT !.gen = f.gen]
         IN  IF f.ok
             THEN linux_xmit(vif, f.seg, type, st1, env, d)
             ELSE [st |-> kfree_skb(f.seg, st1), ret |-> -ENOMEM]

\* skb_gso_segment (kernel) when it returns a list: as skb_segment, with
\* the TCP header, if any, copied to every segment
skb_gso_segment(skb, nid) ==
    LET ip == ip_hdr(skb)
        th == IF ip.proto = IPPROTO_TCP THEN 20 ELSE 0
    IN  skb_segment(skb, skb.mac_len + ip.ihl * 4 + th, nid)

\* lines 353-395: the gso_size linux_gso_xmit leaves in the packet;
\* seg_size and gso_size are unsigned shorts, the TCP header has no options
GsoSize(gso_size, mac_len, nh_len, proto, room) ==
    LET seg_size0 == ToU16(gso_size + mac_len + nh_len)
        seg_size == IF proto = IPPROTO_TCP THEN ToU16(seg_size0 + 20)
                    ELSE seg_size0
        cut == ToU16(gso_size - (seg_size - room))
    IN  IF seg_size > room
        THEN IF proto = IPPROTO_UDP THEN AndNot7(cut) ELSE cut
        ELSE gso_size

\* lines 347-406; it returns nothing: ret is what linux_xmit_segments
\* returned to it, 0 when it was not called
linux_gso_xmit(vif, skb, type, st0, env) ==
    LET ip == ip_hdr(skb)
        gso_size == GsoSize(skb.gso_size, skb.mac_len, ip.ihl * 4, ip.proto,
                            vif.mtu + vif.hard_header_len)
        skb1 == [skb EXCEPT !.gso_size = gso_size]
        st == [st0 EXCEPT !.gso = Append(@, gso_size)]
    IN  IF gso_size = 0 /\ env.gso_result = "segs"
        THEN [st |-> [st EXCEPT !.oops = TRUE], ret |-> 0]
        ELSE IF env.gso_result # "segs"
        THEN [st |-> kfree_skb(skb, st), ret |-> 0]
        ELSE LET segs == skb_gso_segment(skb1, st.nid)
                 st1 == [kfree_skb(skb, st) EXCEPT !.nid = @ + Len(segs)]
             IN  linux_xmit_segments(vif, segs, type, st1, env, 0)

\* lines 642-726: err is what the function linux_if_tx called last
\* returned to it, ret what linux_if_tx returns
IfTx(vif, type, skb, env) ==
    IF vif.os = "NULL"
    THEN [st |-> kfree_skb(skb, St0), err |-> 0, ret |-> 0]
    ELSE IF "VP_FLAG_GRO" \in skb.vp_flags /\ vif.type = VIF_TYPE_VIRTUAL
    THEN IF env.skb_pull_fails
         THEN [st |-> kfree_skb(skb, St0), err |-> 0, ret |-> 0]
         ELSE [st |-> [St0 EXCEPT !.gro = Append(@, skb.id)],
               err |-> 0, ret |-> 0]
    ELSE IF /\ type \in {VP_TYPE_IPOIP, VP_TYPE_IP}
            /\ "VP_FLAG_GSO" \in skb.vp_flags
            /\ skb.gso_size # 0
            /\ vif.type = VIF_TYPE_PHYSICAL
    THEN LET r == linux_gso_xmit(vif, skb, type, St0, env)
         IN  [st |-> r.st, err |-> r.ret, ret |-> 0]
    ELSE LET r == linux_xmit_segment(vif, skb, type, St0, env, 0)
         IN  [st |-> r.st, err |-> r.ret, ret |-> 0]

linux_if_tx ==
    /\ tx_pc = "ready"
    /\ LET r == IfTx(tx_vif, tx_type, tx_skb, tx_env)
       IN  /\ tx_st' = r.st
           /\ tx_err' = r.err
           /\ tx_ret' = r.ret
    /\ tx_pc' = "done"
    /\ UNCHANGED <<tx_vif, tx_type, tx_skb, tx_env>>
    /\ UNCHANGED <<rqvars, rxvars, tapvars>>


----------------------------------------------------------------------------
(* Properties of the fragmenter                                            *)

\* what a fragment's IP header says, and what the fragment carries
Payload(seg) == seg.len - seg.mac_len - ip_hdr(seg).ihl * 4
FragOffset(seg) == (ip_hdr(seg).frag_off % (IP_OFFSET + 1)) * 8
HasMF(seg) == (ip_hdr(seg).frag_off \div IP_MF) % 2 = 1

RECURSIVE SumPayload(_, _)
SumPayload(segs, i) ==
    IF i > Len(segs) THEN 0 ELSE Payload(segs[i]) + SumPayload(segs, i + 1)

\* linux_inet_fragment has split the packet given to linux_if_tx
Fragmented == tx_pc = "done" /\ Len(tx_st.frags) >= 1
Frags == tx_st.frags[1]

\* C1: whenever linux_inet_fragment splits a packet, the gso_size it hands
\* to skb_segment is a multiple of 8, and every fragment except the last of
\* the list carries a payload that is a multiple of 8 bytes.
FragSizeMultipleOf8 ==
    tx_pc = "done" =>
        \A k \in 1..Len(tx_st.frags) :
            /\ tx_st.mss[k] % 8 = 0
            /\ \A i \in 1..(Len(tx_st.frags[k]) - 1) :
                   Payload(tx_st.frags[k][i]) % 8 = 0

\* a packet whose short tail made linux_inet_fragment shrink the fragment
\* size: three or more fragments, the last one not a multiple of 8
FragSizeMultipleOf8_Witness ==
    /\ Fragmented
    /\ Len(Frags) >= 3
    /\ Payload(Frags[Len(Frags)]) % 8 # 0
    /\ tx_st.mss[1] < AndNot7(tx_vif.mtu - tx_skb.mac_len - 20)

\* C2: after the short-tail adjustment the last fragment carries at least
\* 64 bytes, or the payload divides evenly into fragments of the final size.
LastFragmentAtLeast64 ==
    Fragmented =>
        \/ Payload(Frags[Len(Frags)]) >= 64
        \/ Payload(tx_skb) % tx_st.mss[1] = 0

\* C3: every fragment of one packet carries, in the IP header that was
\* fragmented, the identifier of the original packet, and each segment
\* dev_queue_xmit took still carries it there after linux_xmit_segment's
\* rewrite of the tunnel header.
SharedIpId ==
    Fragmented =>
        /\ \A i \in 1..Len(Frags) : ip_hdr(Frags[i]).id = ip_hdr(tx_skb).id
        /\ \A i \in 1..Len(tx_st.wire) :
               ip_hdr(tx_st.wire[i]).id = ip_hdr(tx_skb).id

\* a tunnelled packet split in two or more fragments, all sent, whose
\* outer headers got identifiers of their own, one of them the identifier
\* the inner header carries
SharedIpId_Witness ==
    /\ Fragmented
    /\ tx_type = VP_TYPE_IPOIP
    /\ Len(Frags) >= 2
    /\ Len(tx_st.wire) = Len(Frags)
    /\ tx_st.wire[1].hdr[ETH_HLEN].id # tx_st.wire[2].hdr[ETH_HLEN].id
    /\ tx_st.wire[1].hdr[ETH_HLEN].id = ip_hdr(tx_skb).id

\* C4: "more fragments" is set on every fragment but the last when the
\* original packet did not have it set, and on every fragment, the last
\* included, when it had.
MoreFragmentsFlag ==
    Fragmented =>
        \A i \in 1..Len(Frags) :
            HasMF(Frags[i]) <=> (i < Len(Frags) \/ HasMF(tx_skb))

\* a packet that was itself a fragment with MF set, split again
MoreFragmentsFlag_Witness ==
    /\ Fragmented
    /\ HasMF(tx_skb)
    /\ Len(Frags) >= 2
    /\ HasMF(Frags[Len(Frags)])

\* C5: the first fragment's offset is the original packet's, every later
\* one's is the previous offset plus the previous payload length (so the
\* 13-bit field holds the whole offset), offsets strictly increase, and the
\* payload lengths sum to the payload of the original packet.
OffsetsContiguous ==
    Fragmented =>
        /\ FragOffset(Frags[1]) = FragOffset(tx_skb)
        /\ \A i \in 2..Len(Frags) :
               /\ FragOffset(Frags[i])
                      = FragOffset(Frags[i - 1]) + Payload(Frags[i - 1])
               /\ FragOffset(Frags[i]) > FragOffset(Frags[i - 1])
        /\ SumPayload(Frags, 1) = Payload(tx_skb)

\* a fragment at a high offset split in three or more
OffsetsContiguous_Witness ==
    /\ Fragmented
    /\ FragOffset(tx_skb) > 0
    /\ Len(Frags) >= 3
    /\ FragOffset(Frags[Len(Frags)]) > FragOffset(tx_skb) + tx_vif.mtu

\* the packet of the example: MTU 1500, link header 14, 20-byte IP header,
\* 3200 bytes of payload, not a fragment
IsExample3200 ==
    /\ tx_vif.mtu = 1500
    /\ tx_vif.hard_header_len = 14
    /\ ip_hdr(tx_skb).ihl = 5
    /\ Payload(tx_skb) = 3200
    /\ ~HasMF(tx_skb)
    /\ FragOffset(tx_skb) = 0

\* C6: the packet of the example leaves as exactly 3 fragments whose
\* payloads sum to 3200, cut at a fragment size F that is a multiple of 8,
\* with one IP identifier and the offsets 0, F and 2F.
Example3200 ==
    (tx_pc = "done" /\ IsExample3200) =>
        /\ Len(tx_st.frags) = 1
        /\ Len(Frags) = 3
        /\ SumPayload(Frags, 1) = 3200
        /\ LET F == tx_st.mss[1]
           IN  /\ F % 8 = 0
               /\ Payload(Frags[1]) = F
               /\ FragOffset(Frags[1]) = 0
               /\ FragOffset(Frags[2]) = F
               /\ FragOffset(Frags[3]) = 2 * F
        /\ \A i, j \in 1..3 : ip_hdr(Frags[i]).id = ip_hdr(Frags[j]).id

Example3200_Witness ==
    /\ tx_pc = "done"
    /\ IsExample3200
    /\ tx_skb.mac_len = ETH_HLEN
    /\ Len(tx_st.wire) = 3

----------------------------------------------------------------------------
(* RPS: linux_get_rxq                                                      *)
(*                                                                         *)
(* A 32-bit value that may not fit TLC's integers (skb->rxhash, prev_cpu)  *)
(* is a record [hi, lo] of its two 16-bit halves.                          *)

U32Of(n) == [hi |-> n \div U16, lo |-> n % U16]
\* x + 1 in unsigned int
U32Inc(x) ==
    IF x.lo + 1 < U16 THEN [x EXCEPT !.lo = @ + 1]
    ELSE [hi |-> (x.hi + 1) % U16, lo |-> 0]
U32IsZero(x) == x.hi = 0 /\ x.lo = 0
\* x <= n for an n below 2^16
U32Leq(x, n) == x.hi = 0 /\ x.lo <= n

\* A topology: nr_cpu_ids, the NUMA node of every cpu (cpu_to_node) and
\* the hyperthreads of every cpu's core (cpu_sibling_mask, the cpu itself
\* included)
Flat4 == [nr_cpu_ids |-> 4,
          node |-> [c \in 0..3 |-> 0],
          sib |-> [c \in 0..3 |-> {c}]]
TwoNodesHT == [nr_cpu_ids |-> 8,
               node |-> [c \in 0..7 |-> (c \div 2) % 2],
               sib |-> [c \in 0..7 |-> {c % 4, (c % 4) + 4}]]
OneCoreHT == [nr_cpu_ids |-> 2,
              node |-> [c \in 0..1 |-> 0],
              sib |-> [c \in 0..1 |-> {0, 1}]]
SixHT == [nr_cpu_ids |-> 6,
          node |-> [c \in 0..5 |-> 0],
          sib |-> [c \in 0..5 |-> {c % 3, (c % 3) + 3}]]
Topologies == {Flat4, TwoNodesHT, OneCoreHT, SixHT}

Cpus(topo) == 0..(topo.nr_cpu_ids - 1)
cpumask_of_node(topo, n) == {c \in Cpus(topo) : topo.node[c] = n}

\* NoHtMask taking prev_cpu itself for the previous core (a faulty variant,
\* for the sensitivity check of SteeredAwayFromSiblings)
NoHtMask_PrevNotDecremented(topo, curr_cpu, prev_cpu) ==
    LET node_cpumask == cpumask_of_node(topo, topo.node[curr_cpu])
        noht == node_cpumask \ topo.sib[curr_cpu]
    IN  IF ~U32IsZero(prev_cpu) /\ U32Leq(prev_cpu, topo.nr_cpu_ids)
        THEN noht \ topo.sib[prev_cpu.lo % topo.nr_cpu_ids]
        ELSE noht

\* lines 427-448: the cpus left in noht_cpumask
NoHtMask(topo, curr_cpu, prev_cpu) ==
    LET node_cpumask == cpumask_of_node(topo, topo.node[curr_cpu])
        noht == node_cpumask \ topo.sib[curr_cpu]
    IN  IF ~U32IsZero(prev_cpu) /\ U32Leq(prev_cpu, topo.nr_cpu_ids)
        THEN noht \ topo.sib[prev_cpu.lo - 1]
        ELSE noht

\* MulShift32 as rxhash % num_cpus (a faulty variant, for the sensitivity
\* check of RxqIsHashIndexed)
MulShift32_Modulo(rxhash, num_cpus) ==
    ((rxhash.hi % num_cpus) * (U16 % num_cpus) + rxhash.lo) % num_cpus

\* line 454: ((u64)rxhash * num_cpus) >> 32
MulShift32(rxhash, num_cpus) ==
    (rxhash.hi * num_cpus + (rxhash.lo * num_cpus) \div U16) \div U16

\* lines 460-466: for_each_cpu up to the break; nr_cpu_ids when the loop
\* runs out
RECURSIVE ForEachCpu(_, _, _, _, _)
ForEachCpu(mask, nr_cpu_ids, cpu, count, next_cpu) ==
    IF cpu >= nr_cpu_ids THEN nr_cpu_ids
    ELSE IF cpu \notin mask
    THEN ForEachCpu(mask, nr_cpu_ids, cpu + 1, count, next_cpu)
    ELSE IF count = next_cpu THEN cpu
    ELSE ForEachCpu(mask, nr_cpu_ids, cpu + 1, count + 1, next_cpu)

\* lines 422-485: the value stored in *rxq
linux_get_rxq(topo, rxhash, curr_cpu, prev_cpu) ==
    LET noht_cpumask == NoHtMask(topo, curr_cpu, prev_cpu)
        num_cpus == Cardinality(noht_cpumask)
    IN  IF num_cpus # 0
        THEN LET next_cpu == MulShift32(rxhash, num_cpus)
                 cpu == ForEachCpu(noht_cpumask, topo.nr_cpu_ids, 0, 0,
                                   next_cpu)
             IN  IF cpu >= topo.nr_cpu_ids THEN curr_cpu ELSE cpu
        ELSE curr_cpu


\* skb_get_rxhash mixing the MPLS label of the packet into the hash (a
\* faulty variant, for the sensitivity check of SameFlowSameCoreSameTarget)
skb_get_rxhash_WithLabel(skb) ==
    [hi |-> (skb.rxhash.hi + 32768 * skb.label) % U16, lo |-> skb.rxhash.lo]

\* skb_get_rxhash (kernel): the flow hash of the packet, kept in
\* skb->rxhash (the kernel computes it from the headers when the device
\* did not supply it; the model's packets arrive with it)
skb_get_rxhash(skb) == skb.rxhash

get_rxq ==
    /\ rq_pc = "ready"
    /\ rq_rxq' = linux_get_rxq(rq_topo, skb_get_rxhash(rq_skb), rq_curr,
                               rq_prev)
    /\ rq_pc' = "done"
    /\ UNCHANGED <<rq_topo, rq_skb, rq_curr, rq_prev>>
    /\ UNCHANGED <<txvars, rxvars, tapvars>>

\* flow hashes: the ends of the range, the halves and values around them
Hashes == { [hi |-> 0, lo |-> 0], [hi |-> 0, lo |-> 5],
            [hi |-> 21845, lo |-> 21845], [hi |-> 32767, lo |-> 65535],
            [hi |-> 32768, lo |-> 0], [hi |-> 43690, lo |-> 43691],
            [hi |-> 54613, lo |-> 21846], [hi |-> 65535, lo |-> 65535] }

\* values of prev_cpu: none (0), every core + 1, and values that name no
\* core
PrevCpus(topo) ==
    {U32Of(k) : k \in 0..(topo.nr_cpu_ids + 1)}
        \cup {[hi |-> 65535, lo |-> 65535]}

\* a packet as the device hands it over: label is the MPLS label found at
\* the mac header by pkt_rps_dev_rx_handler
MkRxSkb(rxhash, dev, label) ==
    [rxhash |-> rxhash, dev |-> dev, queue_mapping |-> 0,
     cb |-> [vif_idx |-> 0, vif_rid |-> 0], label |-> label]

----------------------------------------------------------------------------
(* The receive path: linux_rx_handler, pkt_rps_dev_rx_handler,             *)
(* linux_enqueue_pkt_for_gro and vr_napi_poll.                             *)

\* the interfaces: 0 is pkt0 (the agent's), 1 the physical one, 2 the
\* virtual one packets are queued for, 3 another virtual one; os is vif_os
\* ("dev": the interface's own net_device), tap says that linux_rx_handler
\* is registered on that device with the interface as rx_handler_data
PhysVif == 1
GroVif == 2
TapVif == 3
Vifs0 == [i \in 0..3 |->
            [idx |-> i, rid |-> 0, os |-> "dev", tap |-> TRUE,
             type |-> IF i = 0 THEN "VIF_TYPE_AGENT"
                      ELSE IF i = 1 THEN VIF_TYPE_PHYSICAL
                      ELSE VIF_TYPE_VIRTUAL]]

\* vrouter_get and __vrouter_get_interface: router 0 is the only router
vrouter_get(rid) == IF rid = 0 THEN "router0" ELSE "NULL"
\* no interface: a NULL struct vr_interface pointer
NullVif == [idx |-> -1, rid |-> 0, os |-> "NULL", tap |-> FALSE,
            type |-> "NULL"]
vrouter_get_interface(vifs, idx) ==
    IF idx \in DOMAIN vifs THEN vifs[idx] ELSE NullVif

\* router->vr_max_labels and router->vr_ilm: the next hop of each label;
\* nh_dev is the vif_idx of the next hop's interface, null says that the
\* entry is NULL
MaxLabels == 4
NullNh == [null |-> TRUE, nh_dev |-> -1]
Ilm == [l \in 0..(MaxLabels - 1) |->
          IF l = 0 THEN NullNh
          ELSE [null |-> FALSE,
                nh_dev |-> IF l = 3 THEN PhysVif ELSE GroVif]]

\* skb_record_rx_queue
skb_record_rx_queue(skb, rxq) == [skb EXCEPT !.queue_mapping = rxq + 1]

\* netif_receive_skb on a device whose receive queue rxq is served by cpu
\* rxq (lines 414-416): the cpu the packet continues on
RelayCpu(topo, rxq, cpu) == IF rxq \in Cpus(topo) THEN rxq ELSE cpu

\* the queue a steering stage selects: the configured one, or
\* linux_get_rxq's (lines 509-513, 537-547, 838-842)
SelectRxq(topo, perfq, skb, curr_cpu, prev_cpu) ==
    IF perfq # 0 THEN perfq
    ELSE linux_get_rxq(topo, skb_get_rxhash(skb), curr_cpu, prev_cpu)

LogEntry(p, pkt, stage, perfq, prev_cpu, rxq) ==
    [pkt |-> p, stage |-> stage, computed |-> perfq = 0,
     rxhash |-> skb_get_rxhash(pkt.skb), curr_cpu |-> pkt.cpu,
     prev_cpu |-> prev_cpu, rxq |-> rxq, recv_cpu |-> pkt.recv_cpu,
     from_cpu |-> pkt.from_cpu, flow |-> pkt.flow]

Drop(pkt, reason) == [pkt EXCEPT !.loc = "dropped", !.drop = reason]

\* one more netif_receive_skb on pkt_rps_dev; the count stops at MaxHops
MaxHops == 2
CountHop(n) == IF n < MaxHops THEN n + 1 ELSE n

\* the packet has not arrived on pkt_rps_dev since it was last steered
Hop0 == [done |-> FALSE, as |-> "none", out |-> "none", vif |-> -1]

\* StashTag storing interface 0 (a faulty variant, for the sensitivity
\* check of RelayRoundTrip)
StashTag_Zero(vif) == [vif_idx |-> 0, vif_rid |-> vif.rid]

\* lines 851-852: the vr_rps_t written into skb->cb
StashTag(vif) == [vif_idx |-> vif.idx, vif_rid |-> vif.rid]

\* TagResolves without the test of vif_os (a faulty variant, for the
\* sensitivity check of UnresolvedTagDropped)
TagResolves_NoOsTest(router, vif) ==
    /\ router # "NULL"
    /\ vif # NullVif
    /\ vif.type = VIF_TYPE_PHYSICAL

\* lines 809-816: the router and the interface the tag names were found
TagResolves(router, vif) ==
    /\ router # "NULL"
    /\ vif # NullVif
    /\ vif.type = VIF_TYPE_PHYSICAL
    /\ vif.os # "NULL"

\* lines 836-856: RPS of a packet received on a physical interface;
\* [pkt, log]
RxSteer(topo, cfg, p, pkt, vif) ==
    LET curr_cpu == pkt.cpu
        rxq == SelectRxq(topo, cfg.perfq3, pkt.skb, curr_cpu, U32Of(0))
        skb1 == [skb_record_rx_queue(pkt.skb, rxq) EXCEPT
                    !.rxhash = U32Of(curr_cpu),
                    !.dev = "pkt_rps_dev",
                    !.cb = StashTag(vif)]
    IN  [pkt |-> [pkt EXCEPT !.skb = skb1, !.loc = "rps",
                             !.cpu = RelayCpu(topo, rxq, curr_cpu),
                             !.from_cpu = curr_cpu,
                             !.relayed = @ + 1,
                             !.hops = CountHop(@),
                             !.steer = [mode |-> "perfr3", for |-> vif.idx],
                             !.hop = Hop0],
         log |-> {LogEntry(p, pkt, "perfr3", cfg.perfq3, U32Of(0), rxq)}]

\* lines 788-883: linux_rx_handler; the packet is at pkt.vif's device, or
\* comes from pkt_rps_dev; [pkt, log]
RxHandler(topo, cfg, vifs, p, pkt) ==
    LET from_rps == pkt.skb.dev = "pkt_rps_dev"
        router == vrouter_get(pkt.skb.cb.vif_rid)
        tagged == vrouter_get_interface(vifs, pkt.skb.cb.vif_idx)
        looked == [pkt EXCEPT !.lookup = [done |-> TRUE, router |-> router,
                                          vif |-> tagged]]
        \* line 824: rx_handler_data of the device, NULL once
        \* linux_if_del_tap has unregistered the handler
        vif == IF ~from_rps THEN vifs[pkt.vif]
               ELSE IF tagged.tap THEN tagged ELSE NullVif
    IN  IF from_rps /\ ~TagResolves(router, tagged)
        THEN [pkt |-> Drop(looked, "VP_DROP_MISC"), log |-> {}]
        ELSE IF from_rps /\ vif = NullVif
        THEN \* lines 860, 869: vif is NULL at vif->vif_rx
             [pkt |-> [looked EXCEPT !.loc = "oops"], log |-> {}]
        ELSE IF cfg.perfr3 /\ ~from_rps /\ vif.type = VIF_TYPE_PHYSICAL
        THEN RxSteer(topo, cfg, p, pkt, vif)
        ELSE [pkt |-> [(IF from_rps THEN looked ELSE pkt) EXCEPT
                          !.loc = "datapath", !.vif = vif.idx,
                          !.rcv = vif.idx],
              log |-> {}]

\* lines 507-534: RPS before the packet is queued; [pkt, log]
EnqSteer(topo, cfg, p, pkt) ==
    LET curr_cpu == pkt.cpu
        rxq == SelectRxq(topo, cfg.perfq1, pkt.skb, curr_cpu, U32Of(0))
        skb1 == [skb_record_rx_queue(pkt.skb, rxq) EXCEPT
                    !.rxhash = U32Of(curr_cpu),
                    !.dev = "pkt_rps_dev",
                    !.cb.vif_idx = 0]
    IN  [pkt |-> [pkt EXCEPT !.skb = skb1, !.loc = "rps",
                             !.cpu = RelayCpu(topo, rxq, curr_cpu),
                             !.from_cpu = curr_cpu,
                             !.hops = CountHop(@),
                             !.steer = [mode |-> "perfr1", for |-> pkt.vif],
                             !.hop = Hop0],
         log |-> {LogEntry(p, pkt, "perfr1", cfg.perfq1, U32Of(0), rxq)}]

\* lines 536-556: the receive queue recorded for the GRO device; [pkt, log]
EnqSelect(topo, cfg, p, pkt) ==
    IF cfg.perfr2
    THEN LET prev_cpu == IF cfg.perfr1 \/ cfg.perfr3
                         THEN U32Inc(pkt.skb.rxhash) ELSE U32Of(0)
             rxq == SelectRxq(topo, cfg.perfq2, pkt.skb, pkt.cpu, prev_cpu)
         IN  [pkt |-> [pkt EXCEPT
                  !.skb = [skb_record_rx_queue(pkt.skb, rxq) EXCEPT
                              !.dev = "pkt_gro_dev"]],
              log |-> {LogEntry(p, pkt, "perfr2", cfg.perfq2, prev_cpu, rxq)}]
    ELSE [pkt |-> [pkt EXCEPT !.skb.queue_mapping = 0,
                              !.skb.dev = "pkt_gro_dev"],
          log |-> {}]

\* skb_queue_tail putting the packet at the head (a faulty variant, for
\* the sensitivity check of FifoOrder)
skb_queue_tail_AtHead(q, p) == <<p>> \o q

\* skb_queue_tail
skb_queue_tail(q, p) == Append(q, p)

\* EnqSteers without the test of skb->dev (a faulty variant, for the
\* sensitivity check of RelayAtMostOnce)
EnqSteers_AnyDev(cfg, skb) == cfg.perfr1 /\ ~cfg.perfr3

\* line 507: the packet is to be steered before it is queued
EnqSteers(cfg, skb) ==
    cfg.perfr1 /\ ~cfg.perfr3 /\ skb.dev # "pkt_rps_dev"

\* lines 496-558: linux_enqueue_pkt_for_gro up to and including
\* skb_queue_tail; napi_schedule (line 559) is the step EnqSchedule
Enqueue(p, pkt) ==
    IF EnqSteers(rx_cfg, pkt.skb)
    THEN LET r == EnqSteer(rx_topo, rx_cfg, p, pkt)
         IN  /\ rx_pkts' = [rx_pkts EXCEPT ![p] = r.pkt]
             /\ rx_log' = rx_log \cup r.log
             /\ UNCHANGED <<rx_inputq, rx_pending, rx_enq>>
    ELSE LET r == EnqSelect(rx_topo, rx_cfg, p, pkt)
         IN  /\ rx_pkts' = [rx_pkts EXCEPT ![p] = [r.pkt EXCEPT !.loc = "inputq"]]
             /\ rx_log' = rx_log \cup r.log
             /\ rx_inputq' = skb_queue_tail(rx_inputq, p)
             /\ rx_enq' = Append(rx_enq, p)
             /\ rx_pending' = rx_pending \cup {p}

\* lines 788-883: a packet arrives on the device of interface pkt.vif
linux_rx_handler(p) ==
    /\ rx_pkts[p].loc = "nic"
    /\ rx_vifs[rx_pkts[p].vif].tap
    /\ LET r == RxHandler(rx_topo, rx_cfg, rx_vifs, p, rx_pkts[p])
       IN  /\ rx_pkts' = [rx_pkts EXCEPT ![p] = r.pkt]
           /\ rx_log' = rx_log \cup r.log
    /\ UNCHANGED <<rx_del, rx_topo, rx_cfg, rx_vifs, rx_inputq, rx_napi, rx_poll,
                   rx_pending, rx_budgets, rx_enq, rx_sub>>
    /\ UNCHANGED <<txvars, rqvars, tapvars>>

\* lines 1285-1318: why pkt_rps_dev_rx_handler drops the packet, or "none"
RpsDropReason(vifs, skb) ==
    LET label == skb.label
        nh == IF label < MaxLabels THEN Ilm[label] ELSE NullNh
        vif == vrouter_get_interface(vifs, nh.nh_dev)
    IN  IF skb.cb.vif_idx # 0 THEN "VP_DROP_MISC"
        ELSE IF label >= MaxLabels THEN "VP_DROP_INVALID_LABEL"
        ELSE IF nh.null THEN "VP_DROP_INVALID_NH"
        ELSE IF vif = NullVif \/ vif.type # VIF_TYPE_VIRTUAL
        THEN "VP_DROP_MISC"
        ELSE "none"

\* what pkt_rps_dev_rx_handler made of the packet: read as steered by
\* vr_perfr3 or by vr_perfr1 (as), where it went (out: "dropped",
\* "datapath" for vif_rx, "inputq", "oops") and for which interface (vif)
Hop(pkt, as, out, vif) ==
    [pkt EXCEPT !.hop = [done |-> TRUE, as |-> as, out |-> out, vif |-> vif]]

\* lines 1266-1323: the packet arrives on pkt_rps_dev, on the cpu it was
\* steered to
pkt_rps_dev_rx_handler(p) ==
    /\ rx_pkts[p].loc = "rps"
    /\ LET pkt == IF rx_pkts[p].relayed = 0 \/ rx_pkts[p].dest.done
                  THEN rx_pkts[p]
                  ELSE [rx_pkts[p] EXCEPT
                      !.dest = [done |-> TRUE, perfr3 |-> rx_cfg.perfr3,
                                vif |-> vrouter_get_interface(rx_vifs,
                                           rx_pkts[p].arrived)]]
           reason == RpsDropReason(rx_vifs, pkt.skb)
       IN  IF rx_cfg.perfr3
           THEN LET r == RxHandler(rx_topo, rx_cfg, rx_vifs, p, pkt)
                IN  /\ rx_pkts' = [rx_pkts EXCEPT ![p] =
                                       Hop(r.pkt, "perfr3", r.pkt.loc,
                                           r.pkt.rcv)]
                    /\ rx_log' = rx_log \cup r.log
                    /\ UNCHANGED <<rx_inputq, rx_pending, rx_enq>>
           ELSE IF reason # "none"
           THEN /\ rx_pkts' = [rx_pkts EXCEPT ![p] =
                                   Hop(Drop(pkt, reason), "perfr1",
                                       "dropped", -1)]
                /\ UNCHANGED <<rx_log, rx_inputq, rx_pending, rx_enq>>
           ELSE Enqueue(p, Hop([pkt EXCEPT !.vif = Ilm[pkt.skb.label].nh_dev],
                               "perfr1", "inputq",
                               Ilm[pkt.skb.label].nh_dev))
    /\ UNCHANGED <<rx_del, rx_topo, rx_cfg, rx_vifs, rx_napi, rx_poll, rx_budgets,
                   rx_sub>>
    /\ UNCHANGED <<txvars, rqvars, tapvars>>

\* vr_perfr3 is set or cleared while packets are in flight (the corner
\* case lines 1287-1292 speak of)
set_perfr3 ==
    /\ rx_cfg' = [rx_cfg EXCEPT !.perfr3 = ~@]
    /\ UNCHANGED <<rx_del, rx_topo, rx_vifs, rx_pkts, rx_inputq, rx_napi,
                   rx_poll, rx_pending, rx_budgets, rx_log, rx_enq, rx_sub>>
    /\ UNCHANGED <<txvars, rqvars, tapvars>>

\* vr_perfr1 is set or cleared while packets are in flight (the corner
\* case lines 522-528 speak of)
set_perfr1 ==
    /\ rx_cfg' = [rx_cfg EXCEPT !.perfr1 = ~@]
    /\ UNCHANGED <<rx_del, rx_topo, rx_vifs, rx_pkts, rx_inputq, rx_napi,
                   rx_poll, rx_pending, rx_budgets, rx_log, rx_enq, rx_sub>>
    /\ UNCHANGED <<txvars, rqvars, tapvars>>

\* lines 950-971: linux_if_del_tap of the physical interface
linux_if_del_tap ==
    /\ rx_vifs[PhysVif].os # "NULL"
    /\ rx_vifs[PhysVif].tap
    /\ rx_vifs' = [rx_vifs EXCEPT ![PhysVif].tap = FALSE]
    /\ UNCHANGED <<rx_del, rx_topo, rx_cfg, rx_pkts, rx_inputq, rx_napi,
                   rx_poll, rx_pending, rx_budgets, rx_log, rx_enq, rx_sub>>
    /\ UNCHANGED <<txvars, rqvars, tapvars>>

\* lines 1065-1069: linux_if_del of the physical interface
linux_if_del_phys ==
    /\ rx_vifs[PhysVif].os # "NULL"
    /\ rx_vifs' = [rx_vifs EXCEPT ![PhysVif].os = "NULL"]
    /\ UNCHANGED <<rx_del, rx_topo, rx_cfg, rx_pkts, rx_inputq, rx_napi,
                   rx_poll, rx_pending, rx_budgets, rx_log, rx_enq, rx_sub>>
    /\ UNCHANGED <<txvars, rqvars, tapvars>>

\* the deleted interface leaves the router's table: __vrouter_get_interface
\* returns NULL for its index from now on (lines 814-816)
vrouter_del_interface ==
    /\ rx_vifs[PhysVif] # NullVif
    /\ rx_vifs' = [rx_vifs EXCEPT ![PhysVif] = NullVif]
    /\ UNCHANGED <<rx_del, rx_topo, rx_cfg, rx_pkts, rx_inputq, rx_napi,
                   rx_poll, rx_pending, rx_budgets, rx_log, rx_enq, rx_sub>>
    /\ UNCHANGED <<txvars, rqvars, tapvars>>

\* the index is given to a new, virtual, interface: the tag now names an
\* interface that is not physical (line 816)
vrouter_add_interface ==
    /\ rx_vifs[PhysVif] = NullVif
    /\ rx_vifs' = [rx_vifs EXCEPT ![PhysVif] =
                      [Vifs0[TapVif] EXCEPT !.idx = PhysVif]]
    /\ UNCHANGED <<rx_del, rx_topo, rx_cfg, rx_pkts, rx_inputq, rx_napi,
                   rx_poll, rx_pending, rx_budgets, rx_log, rx_enq, rx_sub>>
    /\ UNCHANGED <<txvars, rqvars, tapvars>>

\* lines 642-675: linux_if_tx of a packet the datapath sends to interface
\* pkt.out; a packet that is not for GRO goes on to the egress path
linux_if_tx_gro(p) ==
    /\ rx_pkts[p].loc = "datapath"
    /\ LET pkt == rx_pkts[p]
           vif == rx_vifs[pkt.out]
           skb1 == [pkt.skb EXCEPT !.dev = vif.os]
       IN  IF vif.os = "NULL"
           THEN /\ rx_pkts' = [rx_pkts EXCEPT ![p] =
                                   [pkt EXCEPT !.skb = skb1, !.loc = "freed"]]
                /\ UNCHANGED <<rx_log, rx_inputq, rx_pending, rx_enq>>
           ELSE IF pkt.gro /\ vif.type = VIF_TYPE_VIRTUAL
           THEN Enqueue(p, [pkt EXCEPT !.skb = skb1, !.vif = vif.idx])
           ELSE /\ rx_pkts' = [rx_pkts EXCEPT ![p] =
                                   [pkt EXCEPT !.skb = skb1, !.loc = "xmit"]]
                /\ UNCHANGED <<rx_log, rx_inputq, rx_pending, rx_enq>>
    /\ UNCHANGED <<rx_del, rx_topo, rx_cfg, rx_vifs, rx_napi, rx_poll, rx_budgets,
                   rx_sub>>
    /\ UNCHANGED <<txvars, rqvars, tapvars>>

\* napi_schedule_prep (kernel): no disable is pending and
\* NAPI_STATE_SCHED was not set
napi_schedule_prep(napi) == ~napi.disable /\ ~napi.sched

\* line 559: napi_schedule by the enqueuer of p; it takes
\* NAPI_STATE_SCHED, and puts the napi on the poll list, unless the bit is
\* already taken
napi_schedule(p) ==
    /\ p \in rx_pending
    /\ rx_pending' = rx_pending \ {p}
    /\ rx_napi' = IF napi_schedule_prep(rx_napi)
                   THEN [rx_napi EXCEPT !.sched = TRUE, !.listed = TRUE]
                   ELSE rx_napi
    /\ UNCHANGED <<rx_del, rx_topo, rx_cfg, rx_vifs, rx_pkts, rx_inputq, rx_poll,
                   rx_budgets, rx_log, rx_enq, rx_sub>>
    /\ UNCHANGED <<txvars, rqvars, tapvars>>

\* skb_dequeue of a queue that is not empty: [skb, q]
skb_dequeue(q) == [skb |-> Head(q), q |-> Tail(q)]

\* lines 1345-1351: the kernel calls vr_napi_poll of the scheduled napi
vr_napi_poll_enter ==
    /\ rx_napi.listed
    /\ rx_poll.pc = "idle"
    /\ \E budget \in rx_budgets :
          rx_poll' = [rx_poll EXCEPT !.pc = "loop", !.quota = 0,
                                     !.budget = budget,
                                     !.drained = FALSE, !.completed = FALSE,
                                     !.len0 = Len(rx_inputq),
                                     !.enq0 = Len(rx_enq)]
    /\ UNCHANGED <<rx_del, rx_topo, rx_cfg, rx_vifs, rx_pkts, rx_inputq, rx_napi,
                   rx_pending, rx_budgets, rx_log, rx_enq, rx_sub>>
    /\ UNCHANGED <<txvars, rqvars, tapvars>>

\* QuotaIsBudget as quota > budget (a faulty variant, for the sensitivity
\* check of PollWithinBudget)
QuotaIsBudget_Above(quota, budget) == quota > budget

\* line 1359
QuotaIsBudget(quota, budget) == quota = budget

\* lines 1353-1362: one evaluation of the loop condition and, if a packet
\* was dequeued, of the loop body
vr_napi_poll_loop ==
    /\ rx_poll.pc = "loop"
    /\ IF rx_inputq = <<>>
       THEN /\ rx_poll' = [rx_poll EXCEPT !.pc = "end", !.drained = TRUE]
            /\ UNCHANGED <<rx_pkts, rx_inputq, rx_sub>>
       ELSE LET d == skb_dequeue(rx_inputq)
                quota == rx_poll.quota + 1
            IN  /\ rx_inputq' = d.q
                /\ rx_pkts' = [rx_pkts EXCEPT ![d.skb].skb.rxhash = U32Of(0),
                                              ![d.skb].loc = "gro"]
                /\ rx_sub' = Append(rx_sub, d.skb)
                /\ rx_poll' = [rx_poll EXCEPT
                                 !.quota = quota,
                                 !.pc = IF QuotaIsBudget(quota,
                                                         rx_poll.budget)
                                        THEN "end" ELSE "loop"]
    /\ UNCHANGED <<rx_del, rx_topo, rx_cfg, rx_vifs, rx_napi, rx_pending,
                   rx_budgets, rx_log, rx_enq>>
    /\ UNCHANGED <<txvars, rqvars, tapvars>>

\* PollComplete whatever the quota (a faulty variant, for the sensitivity
\* check of PollReportsRemainingWork)
PollComplete_Always(quota, budget) == TRUE

\* line 1364
PollComplete(quota, budget) == quota # budget

\* lines 1364-1370: napi_complete unless the budget was used up
vr_napi_poll_exit ==
    /\ rx_poll.pc = "end"
    /\ IF PollComplete(rx_poll.quota, rx_poll.budget)
       THEN /\ rx_napi' = [rx_napi EXCEPT !.sched = FALSE, !.listed = FALSE]
            /\ rx_poll' = [rx_poll EXCEPT !.pc = "idle", !.ret = 0,
                                          !.completed = TRUE]
       ELSE /\ rx_poll' = [rx_poll EXCEPT !.pc = "idle",
                                          !.ret = rx_poll.budget]
            /\ UNCHANGED rx_napi
    /\ UNCHANGED <<rx_del, rx_topo, rx_cfg, rx_vifs, rx_pkts, rx_inputq,
                   rx_pending, rx_budgets, rx_log, rx_enq, rx_sub>>
    /\ UNCHANGED <<txvars, rqvars, tapvars>>

\* line 1060, napi_disable (kernel), first half: NAPI_STATE_DISABLE is set
if_del_napi_disable ==
    /\ rx_del.pc = "start"
    /\ rx_vifs[GroVif].type = VIF_TYPE_VIRTUAL
    /\ rx_napi' = [rx_napi EXCEPT !.disable = TRUE]
    /\ rx_del' = [rx_del EXCEPT !.pc = "disabling", !.enq0 = Len(rx_enq)]
    /\ UNCHANGED <<rx_topo, rx_cfg, rx_vifs, rx_pkts, rx_inputq, rx_poll,
                   rx_pending, rx_budgets, rx_log, rx_enq, rx_sub>>
    /\ UNCHANGED <<txvars, rqvars, tapvars>>

\* line 1060, napi_disable (kernel), second half: it waits until it can
\* take NAPI_STATE_SCHED itself, then clears NAPI_STATE_DISABLE
if_del_napi_disabled ==
    /\ rx_del.pc = "disabling"
    /\ ~rx_napi.sched
    /\ rx_napi' = [rx_napi EXCEPT !.sched = TRUE, !.disable = FALSE]
    /\ rx_del' = [rx_del EXCEPT !.pc = "disabled"]
    /\ UNCHANGED <<rx_topo, rx_cfg, rx_vifs, rx_pkts, rx_inputq, rx_poll,
                   rx_pending, rx_budgets, rx_log, rx_enq, rx_sub>>
    /\ UNCHANGED <<txvars, rqvars, tapvars>>

\* line 1061: netif_napi_del
if_del_netif_napi_del ==
    /\ rx_del.pc = "disabled"
    /\ rx_napi' = [rx_napi EXCEPT !.registered = FALSE]
    /\ rx_del' = [rx_del EXCEPT !.pc = "napi_deleted"]
    /\ UNCHANGED <<rx_topo, rx_cfg, rx_vifs, rx_pkts, rx_inputq, rx_poll,
                   rx_pending, rx_budgets, rx_log, rx_enq, rx_sub>>
    /\ UNCHANGED <<txvars, rqvars, tapvars>>

\* skb_queue_purge: every queued packet is freed
skb_queue_purge(pkts, q) ==
    [p \in DOMAIN pkts |->
        IF \E i \in 1..Len(q) : q[i] = p
        THEN [pkts[p] EXCEPT !.loc = "freed"] ELSE pkts[p]]

\* line 1062
if_del_purge ==
    /\ rx_del.pc = "napi_deleted"
    /\ rx_pkts' = skb_queue_purge(rx_pkts, rx_inputq)
    /\ rx_inputq' = <<>>
    /\ rx_del' = [rx_del EXCEPT !.pc = "purged"]
    /\ UNCHANGED <<rx_topo, rx_cfg, rx_vifs, rx_napi, rx_poll,
                   rx_pending, rx_budgets, rx_log, rx_enq, rx_sub>>
    /\ UNCHANGED <<txvars, rqvars, tapvars>>

\* lines 1065-1071: dev_put, vif_os = NULL and the return
if_del_dev_put ==
    /\ rx_del.pc = "purged"
    /\ rx_vifs' = [rx_vifs EXCEPT ![GroVif].os = "NULL"]
    /\ rx_del' = [rx_del EXCEPT !.pc = "done", !.sub0 = Len(rx_sub)]
    /\ UNCHANGED <<rx_topo, rx_cfg, rx_pkts, rx_inputq, rx_napi, rx_poll,
                   rx_pending, rx_budgets, rx_log, rx_enq, rx_sub>>
    /\ UNCHANGED <<txvars, rqvars, tapvars>>

\* linux_if_del of the virtual interface, lines 1052-1072
linux_if_del ==
    \/ if_del_napi_disable
    \/ if_del_napi_disabled
    \/ if_del_netif_napi_del
    \/ if_del_purge
    \/ if_del_dev_put

NextRx ==
    \/ \E p \in DOMAIN rx_pkts : linux_rx_handler(p)
    \/ \E p \in DOMAIN rx_pkts : pkt_rps_dev_rx_handler(p)
    \/ \E p \in DOMAIN rx_pkts : linux_if_tx_gro(p)
    \/ \E p \in DOMAIN rx_pkts : napi_schedule(p)
    \/ vr_napi_poll_enter
    \/ vr_napi_poll_loop
    \/ vr_napi_poll_exit

----------------------------------------------------------------------------
(* linux_if_add_tap and linux_if_del_tap under the rtnl lock.  The calling *)
(* context may hold the lock when it calls (a notifier) or not (a request  *)
(* of the agent); another thread takes and releases the lock at any time.  *)

EINVAL == 22
EBUSY == 16

Tap0 == [pc |-> "idle", op |-> "add", os |-> "dev", i_locked |-> FALSE,
         ret |-> 0, entry |-> "none", did |-> FALSE, did_owner |-> "none",
         exit |-> "none"]

\* rtnl_is_locked (kernel): mutex_is_locked, whoever the holder is
rtnl_is_locked(owner) == owner # "none"

\* the calling context takes the lock before it calls, or releases it
\* after a call
caller_rtnl_lock ==
    /\ tap_t.pc = "idle"
    /\ tap_rtnl = "none"
    /\ tap_rtnl' = "caller"
    /\ UNCHANGED <<tap_dev, tap_t>>
    /\ UNCHANGED <<txvars, rqvars, rxvars>>

caller_rtnl_unlock ==
    /\ tap_t.pc = "idle"
    /\ tap_rtnl = "caller"
    /\ tap_rtnl' = "none"
    /\ UNCHANGED <<tap_dev, tap_t>>
    /\ UNCHANGED <<txvars, rqvars, rxvars>>

\* another thread takes the lock, or releases it
other_rtnl_lock ==
    /\ tap_rtnl = "none"
    /\ tap_rtnl' = "other"
    /\ UNCHANGED <<tap_dev, tap_t>>
    /\ UNCHANGED <<txvars, rqvars, rxvars>>

other_rtnl_unlock ==
    /\ tap_rtnl = "other"
    /\ tap_rtnl' = "none"
    /\ UNCHANGED <<tap_dev, tap_t>>
    /\ UNCHANGED <<txvars, rqvars, rxvars>>

\* lines 953-957, 988-993: the call is entered; -EINVAL without a device
if_tap_enter ==
    /\ tap_t.pc = "idle"
    /\ \E op \in {"add", "del"}, os \in {"dev", "NULL"} :
          tap_t' = [Tap0 EXCEPT !.op = op, !.os = os, !.entry = tap_rtnl,
                                !.exit = tap_rtnl,
                                !.ret = IF os = "NULL" THEN -EINVAL ELSE 0,
                                !.pc = IF os = "NULL" THEN "idle" ELSE "test"]
    /\ UNCHANGED <<tap_rtnl, tap_dev>>
    /\ UNCHANGED <<txvars, rqvars, rxvars>>

\* lines 959-960, 995-996: if (!rtnl_is_locked()) i_locked = true
if_tap_rtnl_is_locked ==
    /\ tap_t.pc = "test"
    /\ tap_t' = IF rtnl_is_locked(tap_rtnl)
                THEN [tap_t EXCEPT !.pc = "handler"]
                ELSE [tap_t EXCEPT !.pc = "lock", !.i_locked = TRUE]
    /\ UNCHANGED <<tap_rtnl, tap_dev>>
    /\ UNCHANGED <<txvars, rqvars, rxvars>>

\* lines 961, 997: rtnl_lock, which waits until the mutex is free
if_tap_rtnl_lock ==
    /\ tap_t.pc = "lock"
    /\ tap_rtnl = "none"
    /\ tap_rtnl' = "caller"
    /\ tap_t' = [tap_t EXCEPT !.pc = "handler"]
    /\ UNCHANGED tap_dev
    /\ UNCHANGED <<txvars, rqvars, rxvars>>

\* line 1000, netdev_rx_handler_register (kernel): -EBUSY if the device
\* has a handler; lines 964-965: netdev_rx_handler_unregister if the
\* handler is linux_rx_handler
if_tap_handler ==
    /\ tap_t.pc = "handler"
    /\ IF tap_t.op = "add"
       THEN IF tap_dev.rx_handler # "NULL"
            THEN /\ tap_t' = [tap_t EXCEPT !.pc = "unlock", !.ret = -EBUSY,
                                           !.did = TRUE,
                                           !.did_owner = tap_rtnl]
                 /\ UNCHANGED tap_dev
            ELSE /\ tap_t' = [tap_t EXCEPT !.pc = "unlock", !.did = TRUE,
                                           !.did_owner = tap_rtnl]
                 /\ tap_dev' = [tap_dev EXCEPT
                                   !.rx_handler = "linux_rx_handler"]
       ELSE IF tap_dev.rx_handler = "linux_rx_handler"
            THEN /\ tap_t' = [tap_t EXCEPT !.pc = "unlock", !.did = TRUE,
                                           !.did_owner = tap_rtnl]
                 /\ tap_dev' = [tap_dev EXCEPT !.rx_handler = "NULL"]
            ELSE /\ tap_t' = [tap_t EXCEPT !.pc = "unlock"]
                 /\ UNCHANGED tap_dev
    /\ UNCHANGED tap_rtnl
    /\ UNCHANGED <<txvars, rqvars, rxvars>>

\* lines 967-970, 1002-1005: if (i_locked) rtnl_unlock(); return
if_tap_rtnl_unlock ==
    /\ tap_t.pc = "unlock"
    /\ LET owner == IF tap_t.i_locked THEN "none" ELSE tap_rtnl
       IN  /\ tap_rtnl' = owner
           /\ tap_t' = [tap_t EXCEPT !.pc = "idle", !.exit = owner]
    /\ UNCHANGED tap_dev
    /\ UNCHANGED <<txvars, rqvars, rxvars>>

----------------------------------------------------------------------------
(* Specifications.  Each one starts one part of the model and leaves the   *)
(* other parts idle.                                                       *)

\* the steering configuration: vr_perfr1..3 and vr_perfq1..3
Cfg(r1, r2, r3, q1, q2, q3) ==
    [perfr1 |-> r1, perfr2 |-> r2, perfr3 |-> r3,
     perfq1 |-> q1, perfq2 |-> q2, perfq3 |-> q3]

\* a packet as it arrives on the device of interface vif on recv_cpu; the
\* datapath sends what the physical interface received to the virtual
\* interface, for GRO, and what a virtual interface received to the
\* physical one
MkPkt(rxhash, recv_cpu, vif, label) ==
    [skb |-> MkRxSkb(rxhash, "dev", label), loc |-> "nic", cpu |-> recv_cpu,
     vif |-> vif, out |-> IF vif = PhysVif THEN GroVif ELSE PhysVif,
     gro |-> vif = PhysVif, recv_cpu |-> recv_cpu, from_cpu |-> -1,
     flow |-> rxhash, drop |-> "none", arrived |-> vif, relayed |-> 0,
     rcv |-> -1, hops |-> 0,
     steer |-> [mode |-> "none", for |-> -1],
     hop |-> Hop0,
     lookup |-> [done |-> FALSE, router |-> "NULL", vif |-> NullVif],
     dest |-> [done |-> FALSE, perfr3 |-> FALSE, vif |-> NullVif]]

\* lines 1091-1093: the napi of an interface linux_if_add has set up
Napi0 == [sched |-> FALSE, listed |-> FALSE, disable |-> FALSE,
          registered |-> TRUE]

\* linux_if_del is not called
Del0 == [pc |-> "none", enq0 |-> 0, sub0 |-> 0]

Poll0 == [pc |-> "idle", quota |-> 0, budget |-> 0, ret |-> 0,
          drained |-> FALSE, completed |-> FALSE, len0 |-> 0, enq0 |-> 0]

TxIdle ==
    /\ tx_vif = [type |-> VIF_TYPE_PHYSICAL, os |-> "dev", mtu |-> 1500,
                 hard_header_len |-> ETH_HLEN]
    /\ tx_type = VP_TYPE_IP
    /\ tx_skb = MkSkb(<<VP_TYPE_IP, ETH_HLEN, 0>>, 5, 1, FALSE, 0, 1,
                      CHECKSUM_NONE)
    /\ tx_env = NoFaults
    /\ tx_pc = "idle"
    /\ tx_st = St0
    /\ tx_err = 0
    /\ tx_ret = 0

RqIdle ==
    /\ rq_topo = OneCoreHT
    /\ rq_skb = MkRxSkb(U32Of(0), "dev", 0)
    /\ rq_curr = 0
    /\ rq_prev = U32Of(0)
    /\ rq_pc = "idle"
    /\ rq_rxq = 0

TapIdle ==
    /\ tap_rtnl = "none"
    /\ tap_dev = [rx_handler |-> "NULL"]
    /\ tap_t = Tap0

RxIdle ==
    /\ rx_topo = OneCoreHT
    /\ rx_cfg = Cfg(FALSE, FALSE, FALSE, 0, 0, 0)
    /\ rx_vifs = Vifs0
    /\ rx_pkts = <<>>
    /\ rx_inputq = <<>>
    /\ rx_napi = Napi0
    /\ rx_del = Del0
    /\ rx_poll = Poll0
    /\ rx_pending = {}
    /\ rx_budgets = {}
    /\ rx_log = {}
    /\ rx_enq = <<>>
    /\ rx_sub = <<>>

----------------------------------------------------------------------------
(* The fragmenter on every payload size: packets of every size up to       *)
(* MaxPayload, plain and tunnelled, already a fragment or not, sent on a   *)
(* physical interface with no failure of the kernel calls.                 *)

\* identifiers of the packet given to linux_if_tx; 1 is also the first
\* identifier vr_generate_unique_ip_id hands out
IpIds == {1, 40000}

InitFrag ==
    /\ tx_vif \in [type : {VIF_TYPE_PHYSICAL}, os : {"dev"}, mtu : MTUs,
                   hard_header_len : {ETH_HLEN}]
    /\ \E enc \in Encaps, id \in IpIds, mf \in BOOLEAN, off \in Offsets,
          payload \in 1..MaxPayload :
          /\ payload <= MaxMtus * tx_vif.mtu
          /\ tx_type = enc[1]
          /\ tx_skb = MkSkb(enc, 5, id, mf, off, payload, CHECKSUM_NONE)
    /\ tx_env = NoFaults
    /\ tx_pc = "ready"
    /\ tx_st = St0
    /\ tx_err = 0
    /\ tx_ret = 0
    /\ RqIdle
    /\ TapIdle
    /\ RxIdle

NextFrag == linux_if_tx

SpecFrag == InitFrag /\ [][NextFrag]_vars

----------------------------------------------------------------------------
(* The egress path with failures: a packet that fits, or needs two or      *)
(* three fragments, IPv4 or not, marked for GRO or GSO or not, sent on a   *)
(* physical or a virtual interface whose device may be gone, with every    *)
(* answer of the kernel calls.                                             *)

EgressPayloads == {100, 1600, 3200}
EgressGsoSizes == {0, 1460}
EgressFlags == {{}, {"VP_FLAG_GRO"}, {"VP_FLAG_GSO"}}
EgressEnvs ==
    [csum_help_fails : BOOLEAN, segment_fails : BOOLEAN,
     xmit_fail_at : 0..3, pull_fails : BOOLEAN,
     gso_result : {"segs", "err", "null"}, skb_pull_fails : BOOLEAN]

InitEgress ==
    /\ tx_vif \in [type : {VIF_TYPE_PHYSICAL, VIF_TYPE_VIRTUAL},
                   os : {"dev", "NULL"}, mtu : {1500},
                   hard_header_len : {ETH_HLEN}]
    /\ \E enc \in Encaps, payload \in EgressPayloads,
          proto \in {ETH_P_IP, ETH_P_IPV6},
          summed \in {CHECKSUM_NONE, CHECKSUM_PARTIAL},
          flags \in EgressFlags, gso \in EgressGsoSizes :
          /\ tx_type = enc[1]
          /\ tx_skb = [MkSkb(enc, 5, 1, FALSE, 0, payload, summed)
                           EXCEPT !.protocol = proto, !.vp_flags = flags,
                                  !.gso_size = gso]
    /\ tx_env \in EgressEnvs
    /\ tx_pc = "ready"
    /\ tx_st = St0
    /\ tx_err = 0
    /\ tx_ret = 0
    /\ RqIdle
    /\ TapIdle
    /\ RxIdle

NextEgress == linux_if_tx

SpecEgress == InitEgress /\ [][NextEgress]_vars

----------------------------------------------------------------------------
(* The outer header: tunnelled and plain packets that fit the device or    *)
(* need fragments, the outer protocol being UDP, GRE or another one        *)
(* (4, IP in IP), with no failure of the kernel calls.                     *)

TunnelEncaps == Encaps \cup {<<VP_TYPE_IPOIP, ETH_HLEN + 20 + 4, 4>>}
TunnelPayloads == {1, 100, 1400, 1600, 3000}

InitTunnel ==
    /\ tx_vif \in [type : {VIF_TYPE_PHYSICAL, VIF_TYPE_VIRTUAL}, os : {"dev"},
                   mtu : {1500}, hard_header_len : {ETH_HLEN}]
    /\ \E enc \in TunnelEncaps, id \in IpIds, mf \in BOOLEAN,
          off \in Offsets, payload \in TunnelPayloads :
          /\ tx_type = enc[1]
          /\ tx_skb = MkSkb(enc, 5, id, mf, off, payload, CHECKSUM_NONE)
    /\ tx_env = NoFaults
    /\ tx_pc = "ready"
    /\ tx_st = St0
    /\ tx_err = 0
    /\ tx_ret = 0
    /\ RqIdle
    /\ TapIdle
    /\ RxIdle

NextTunnel == linux_if_tx

SpecTunnel == InitTunnel /\ [][NextTunnel]_vars

----------------------------------------------------------------------------
(* The fragmenter on a device of small MTU: 68 is the least IPv4 allows;   *)
(* packets plain and tunnelled, the IP header with and without an option.  *)

SmallMtus == {68, 76}
SmallIhls == {5, 6}
SmallPayloads == {20, 56, 64, 100, 200}

InitSmall ==
    /\ tx_vif \in [type : {VIF_TYPE_PHYSICAL}, os : {"dev"}, mtu : SmallMtus,
                   hard_header_len : {ETH_HLEN}]
    /\ \E enc \in Encaps, ihl \in SmallIhls, id \in IpIds,
          payload \in SmallPayloads :
          /\ tx_type = enc[1]
          /\ tx_skb = MkSkb(enc, ihl, id, FALSE, 0, payload, CHECKSUM_NONE)
    /\ tx_env = NoFaults
    /\ tx_pc = "ready"
    /\ tx_st = St0
    /\ tx_err = 0
    /\ tx_ret = 0
    /\ RqIdle
    /\ TapIdle
    /\ RxIdle

NextSmall == linux_if_tx

SpecSmall == InitSmall /\ [][NextSmall]_vars

----------------------------------------------------------------------------
(* Segmentation: packets marked for GSO, TCP or UDP inside, plain or       *)
(* tunnelled, with segment sizes over the range of the 16-bit field, on a  *)
(* device of the usual MTU and on one of the smallest MTU IPv4 allows.     *)

GsoMtus == {68, 1500}
GsoSizes == {1000, 1448, 1460, 65500}
GsoPayloads == {100, 3000}

InitGso ==
    /\ tx_vif \in [type : {VIF_TYPE_PHYSICAL}, os : {"dev"}, mtu : GsoMtus,
                   hard_header_len : {ETH_HLEN}]
    /\ \E enc \in Encaps, payload \in GsoPayloads, gso \in GsoSizes,
          proto \in {IPPROTO_TCP, IPPROTO_UDP} :
          /\ payload <= 2 * tx_vif.mtu
          /\ tx_type = enc[1]
          /\ tx_skb = [MkSkb(enc, 5, 1, FALSE, 0, payload, CHECKSUM_NONE)
                           EXCEPT !.vp_flags = {"VP_FLAG_GSO"},
                                  !.gso_size = gso,
                                  !.hdr[enc[2]].proto = proto]
    /\ tx_env = NoFaults
    /\ tx_pc = "ready"
    /\ tx_st = St0
    /\ tx_err = 0
    /\ tx_ret = 0
    /\ RqIdle
    /\ TapIdle
    /\ RxIdle

NextGso == linux_if_tx

SpecGso == InitGso /\ [][NextGso]_vars

----------------------------------------------------------------------------
(* linux_get_rxq on its own: every topology, every core as the current     *)
(* one, every value of prev_cpu and flow hashes over the whole range.      *)

InitRxq ==
    /\ rq_topo \in Topologies
    /\ \E h \in Hashes : rq_skb = MkRxSkb(h, "dev", 1)
    /\ rq_curr \in Cpus(rq_topo)
    /\ rq_prev \in PrevCpus(rq_topo)
    /\ rq_pc = "ready"
    /\ rq_rxq = 0
    /\ TxIdle
    /\ RxIdle
    /\ TapIdle

NextRxq == get_rxq

SpecRxq == InitRxq /\ [][NextRxq]_vars

----------------------------------------------------------------------------
(* Steering: two packets arrive, each on any core; the first one on the    *)
(* physical interface, the second on the physical or a virtual one.        *)

SteerHashes == {[hi |-> 0, lo |-> 5], [hi |-> 65535, lo |-> 65535]}

\* the second packet: the interface it arrives on and its MPLS label
SecondPkts == {<<PhysVif, 1>>, <<PhysVif, 2>>, <<TapVif, 1>>}

SteerTopologies == {Flat4, SixHT, TwoNodesHT}

\* every combination of vr_perfr1..3 with the queue computed, and two
\* with the queue configured
SteerCfgs ==
    {Cfg(r1, r2, r3, 0, 0, 0) : r1 \in BOOLEAN, r2 \in BOOLEAN,
                                 r3 \in BOOLEAN}
        \cup {Cfg(TRUE, TRUE, FALSE, 2, 1, 0), Cfg(FALSE, TRUE, TRUE, 0, 0, 1)}

MaxBudget == 2

InitSteer ==
    /\ rx_topo \in SteerTopologies
    /\ rx_cfg \in SteerCfgs
    /\ rx_vifs = Vifs0
    /\ \E h1 \in SteerHashes, h2 \in SteerHashes,
          c1 \in Cpus(rx_topo), c2 \in Cpus(rx_topo), s \in SecondPkts :
          rx_pkts = <<MkPkt(h1, c1, PhysVif, 1), MkPkt(h2, c2, s[1], s[2])>>
    /\ rx_inputq = <<>>
    /\ rx_napi = Napi0
    /\ rx_del = Del0
    /\ rx_poll = Poll0
    /\ rx_pending = {}
    /\ rx_budgets = {MaxBudget}
    /\ rx_log = {}
    /\ rx_enq = <<>>
    /\ rx_sub = <<>>
    /\ TxIdle
    /\ RqIdle
    /\ TapIdle

SpecSteer == InitSteer /\ [][NextRx]_vars

----------------------------------------------------------------------------
(* The relay: two packets arrive on the physical interface while           *)
(* vr_perfr3 is set and cleared and the physical interface is deleted and  *)
(* its index reused.  The interface belongs to router 0 or names a router  *)
(* that does not exist.                                                    *)

RelayCfgs == {Cfg(FALSE, FALSE, TRUE, 0, 0, 0), Cfg(FALSE, TRUE, TRUE, 0, 0, 1)}

InitRelay ==
    /\ rx_topo = Flat4
    /\ rx_cfg \in RelayCfgs
    /\ \E rid \in {0, 1} : rx_vifs = [Vifs0 EXCEPT ![PhysVif].rid = rid]
    /\ \E h \in SteerHashes :
          rx_pkts = <<MkPkt(h, 0, PhysVif, 1), MkPkt(h, 1, PhysVif, 2)>>
    /\ rx_inputq = <<>>
    /\ rx_napi = Napi0
    /\ rx_del = Del0
    /\ rx_poll = Poll0
    /\ rx_pending = {}
    /\ rx_budgets = {MaxBudget}
    /\ rx_log = {}
    /\ rx_enq = <<>>
    /\ rx_sub = <<>>
    /\ TxIdle
    /\ RqIdle
    /\ TapIdle

NextRelay ==
    \/ NextRx
    \/ set_perfr3
    \/ linux_if_del_tap
    \/ linux_if_del_phys
    \/ vrouter_del_interface
    \/ vrouter_add_interface

SpecRelay == InitRelay /\ [][NextRelay]_vars

----------------------------------------------------------------------------
(* Steering modes changed in flight: two packets arrive on a physical      *)
(* interface while vr_perfr1 and vr_perfr3 are set and cleared.  The       *)
(* agent gives interfaces their indices: interface 0 is pkt0 or a second   *)
(* physical interface, and the packets arrive on interface 0 or 1.         *)

\* the interface table with a physical interface at index 0
VifsPhys0 == [Vifs0 EXCEPT ![0].type = VIF_TYPE_PHYSICAL]

\* a packet received on physical interface vif, which the datapath sends
\* to the virtual interface for GRO
MkPhysPkt(rxhash, recv_cpu, vif, label) ==
    [MkPkt(rxhash, recv_cpu, vif, label) EXCEPT !.out = GroVif, !.gro = TRUE]

ToggleCfgs == {Cfg(TRUE, FALSE, FALSE, 0, 0, 0),
               Cfg(FALSE, FALSE, TRUE, 0, 0, 0)}

InitToggle ==
    /\ rx_topo = Flat4
    /\ rx_cfg \in ToggleCfgs
    /\ rx_vifs \in {Vifs0, VifsPhys0}
    /\ \E v \in {0, PhysVif} :
          /\ rx_vifs[v].type = VIF_TYPE_PHYSICAL
          /\ rx_pkts = <<MkPhysPkt(U32Of(5), 0, v, 1),
                         MkPhysPkt(U32Of(5), 1, PhysVif, 2)>>
    /\ rx_inputq = <<>>
    /\ rx_napi = Napi0
    /\ rx_del = Del0
    /\ rx_poll = Poll0
    /\ rx_pending = {}
    /\ rx_budgets = {MaxBudget}
    /\ rx_log = {}
    /\ rx_enq = <<>>
    /\ rx_sub = <<>>
    /\ TxIdle
    /\ RqIdle
    /\ TapIdle

NextToggle ==
    \/ NextRx
    \/ set_perfr1
    \/ set_perfr3

SpecToggle == InitToggle /\ [][NextToggle]_vars

----------------------------------------------------------------------------
(* The input queue: three packets arrive on three cores and are polled     *)
(* with every budget up to MaxBudget, with and without steering before     *)
(* the queue.                                                              *)

NapiCfgs == {Cfg(FALSE, FALSE, FALSE, 0, 0, 0),
             Cfg(TRUE, FALSE, FALSE, 0, 0, 0),
             Cfg(TRUE, TRUE, FALSE, 0, 0, 0)}

InitNapi ==
    /\ rx_topo = Flat4
    /\ rx_cfg \in NapiCfgs
    /\ rx_vifs = Vifs0
    /\ \E h \in SteerHashes :
          rx_pkts = <<MkPkt(h, 0, PhysVif, 1), MkPkt(h, 1, PhysVif, 1),
                      MkPkt([hi |-> 0, lo |-> 5], 2, PhysVif, 2)>>
    /\ rx_inputq = <<>>
    /\ rx_napi = Napi0
    /\ rx_del = Del0
    /\ rx_poll = Poll0
    /\ rx_pending = {}
    /\ rx_budgets = 1..MaxBudget
    /\ rx_log = {}
    /\ rx_enq = <<>>
    /\ rx_sub = <<>>
    /\ TxIdle
    /\ RqIdle
    /\ TapIdle

SpecNapi == InitNapi /\ [][NextRx]_vars

----------------------------------------------------------------------------
(* The poll task called with a budget of 0 (as netpoll does), on the       *)
(* packets of InitNapi.                                                    *)

InitZero ==
    /\ rx_topo = Flat4
    /\ rx_cfg \in NapiCfgs
    /\ rx_vifs = Vifs0
    /\ \E h \in SteerHashes :
          rx_pkts = <<MkPkt(h, 0, PhysVif, 1), MkPkt(h, 1, PhysVif, 1),
                      MkPkt([hi |-> 0, lo |-> 5], 2, PhysVif, 2)>>
    /\ rx_inputq = <<>>
    /\ rx_napi = Napi0
    /\ rx_del = Del0
    /\ rx_poll = Poll0
    /\ rx_pending = {}
    /\ rx_budgets = {0}
    /\ rx_log = {}
    /\ rx_enq = <<>>
    /\ rx_sub = <<>>
    /\ TxIdle
    /\ RqIdle
    /\ TapIdle

SpecZero == InitZero /\ [][NextRx]_vars

----------------------------------------------------------------------------
(* Teardown: linux_if_del of the virtual interface runs while two packets  *)
(* are on their way to its queue and vr_napi_poll is scheduled.            *)

InitDel ==
    /\ rx_topo = Flat4
    /\ rx_cfg \in NapiCfgs
    /\ rx_vifs = Vifs0
    /\ \E h \in SteerHashes :
          rx_pkts = <<MkPkt(h, 0, PhysVif, 1), MkPkt(h, 1, PhysVif, 2)>>
    /\ rx_inputq = <<>>
    /\ rx_napi = Napi0
    /\ rx_del = [Del0 EXCEPT !.pc = "start"]
    /\ rx_poll = Poll0
    /\ rx_pending = {}
    /\ rx_budgets = 1..MaxBudget
    /\ rx_log = {}
    /\ rx_enq = <<>>
    /\ rx_sub = <<>>
    /\ TxIdle
    /\ RqIdle
    /\ TapIdle

NextDel == NextRx \/ linux_if_del

SpecDel == InitDel /\ [][NextDel]_vars

----------------------------------------------------------------------------
(* The receive hook: calls of linux_if_add_tap and linux_if_del_tap, one   *)
(* after another, from a context that holds the rtnl lock or does not,     *)
(* on a device with or without a handler, while another thread takes and   *)
(* releases the lock.                                                      *)

InitTap ==
    /\ tap_rtnl \in {"none", "caller", "other"}
    /\ tap_dev \in [rx_handler : {"NULL", "linux_rx_handler", "br_handle_frame"}]
    /\ tap_t = Tap0
    /\ TxIdle
    /\ RqIdle
    /\ RxIdle

NextTap ==
    \/ caller_rtnl_lock
    \/ caller_rtnl_unlock
    \/ other_rtnl_lock
    \/ other_rtnl_unlock
    \/ if_tap_enter
    \/ if_tap_rtnl_is_locked
    \/ if_tap_rtnl_lock
    \/ if_tap_handler
    \/ if_tap_rtnl_unlock

SpecTap == InitTap /\ [][NextTap]_vars

----------------------------------------------------------------------------
(* Properties of the steering selector and of the input queue.             *)

\* the candidate set: the cores on the NUMA node of curr, without the
\* hyperthreads of curr's core and of the cores in prevs
CandidateSet(topo, curr, prevs) ==
    {c \in Cpus(topo) :
        /\ topo.node[c] = topo.node[curr]
        /\ c \notin topo.sib[curr]
        /\ \A q \in prevs : c \notin topo.sib[q]}

\* the core an earlier steering stage recorded and the caller of this
\* selection passed on, if any
PrevOf(e) ==
    IF e.stage = "perfr2" /\ e.from_cpu # -1 THEN {e.from_cpu} ELSE {}

\* C7: whenever the candidate set is not empty, the core linux_get_rxq
\* returns is on the NUMA node of the current core, is not the current
\* core or one of its hyperthreads and, when linux_enqueue_pkt_for_gro
\* supplied the core recorded by the earlier stage (as that core + 1), is
\* not that core or one of its hyperthreads.
SteeredAwayFromSiblings ==
    \A e \in rx_log :
        (e.computed /\ CandidateSet(rx_topo, e.curr_cpu, PrevOf(e)) # {}) =>
            /\ e.rxq \in Cpus(rx_topo)
            /\ rx_topo.node[e.rxq] = rx_topo.node[e.curr_cpu]
            /\ e.rxq # e.curr_cpu
            /\ e.rxq \notin rx_topo.sib[e.curr_cpu]
            /\ \A q \in PrevOf(e) :
                  e.rxq # q /\ e.rxq \notin rx_topo.sib[q]

\* C7 happens: a second-stage selection with a recorded core whose
\* hyperthreads are candidates but for the exclusion, made on a core that
\* has hyperthreads on its node
SteeredAwayFromSiblings_Witness ==
    \E e \in rx_log :
        /\ e.computed
        /\ e.stage = "perfr2"
        /\ e.from_cpu # -1
        /\ CandidateSet(rx_topo, e.curr_cpu, PrevOf(e)) # {}
        /\ CandidateSet(rx_topo, e.curr_cpu, PrevOf(e))
              # CandidateSet(rx_topo, e.curr_cpu, {})
        /\ Cardinality(rx_topo.sib[e.curr_cpu]) > 1
        /\ e.rxq # e.curr_cpu

\* prev_cpu names a core: it is not 0 and not above nr_cpu_ids
RqPrevs ==
    IF rq_prev.hi = 0 /\ rq_prev.lo \in 1..rq_topo.nr_cpu_ids
    THEN {rq_prev.lo - 1} ELSE {}

RqCandidates == CandidateSet(rq_topo, rq_curr, RqPrevs)

\* the position of core c in s in ascending order, from 0
RankIn(s, c) == Cardinality({d \in s : d < c})

\* C8: linux_get_rxq is a function of the flow hash, the current core, the
\* previous core and the topology: with n the size of the candidate set,
\* for n > 0 it returns the candidate at position floor(hash * n / 2^32)
\* in ascending order, a position in 0..n-1, and for n = 0 the current
\* core; the call changes nothing of the packet.  (hash * n is compared in
\* units of 2^16: hash = hi * 2^16 + lo.)
RxqIsHashIndexed ==
    /\ [](rq_pc = "done" =>
            LET n == Cardinality(RqCandidates)
                h == rq_skb.rxhash
                i == RankIn(RqCandidates, rq_rxq)
                scaled == h.hi * n + (h.lo * n) \div U16
            IN  IF n > 0
                THEN /\ rq_rxq \in RqCandidates
                     /\ i \in 0..(n - 1)
                     /\ i * U16 <= scaled
                     /\ scaled < (i + 1) * U16
                ELSE rq_rxq = rq_curr)
    /\ [][rq_skb' = rq_skb]_vars

\* C8 happens: a call with a previous core and at least three candidates
\* that returned a candidate other than the first
RxqIsHashIndexed_Witness ==
    /\ rq_pc = "done"
    /\ RqPrevs # {}
    /\ Cardinality(RqCandidates) >= 3
    /\ rq_rxq \in RqCandidates
    /\ RankIn(RqCandidates, rq_rxq) >= 1
    /\ rq_skb.rxhash.hi > 0

\* C9, as amended: for a fixed topology and steering configuration, the
\* packets of one flow (same flow hash) that were received on the same
\* core are steered to the same target core by each steering stage.
SameFlowSameCoreSameTarget ==
    \A e1 \in rx_log : \A e2 \in rx_log :
        (/\ e1.pkt # e2.pkt
         /\ e1.stage = e2.stage
         /\ e1.flow = e2.flow
         /\ e1.recv_cpu = e2.recv_cpu) => e1.rxq = e2.rxq

\* C9 happens: two packets of one flow received on one core, both steered
\* away from it and then steered again by the second stage
SameFlowSameCoreSameTarget_Witness ==
    \E e1 \in rx_log : \E e2 \in rx_log :
        /\ e1.pkt # e2.pkt
        /\ e1.stage = "perfr2" /\ e2.stage = "perfr2"
        /\ e1.computed
        /\ e1.flow = e2.flow
        /\ e1.recv_cpu = e2.recv_cpu
        /\ e1.from_cpu = e1.recv_cpu
        /\ e1.curr_cpu # e1.recv_cpu
        /\ e1.rxq # e1.curr_cpu
        /\ e1.rxq = e2.rxq

\* C9, as stated: all packets of one flow are steered to the same target
\* core by each steering stage, whichever core each packet was received on.
SameFlowSameTarget ==
    \A e1 \in rx_log : \A e2 \in rx_log :
        (/\ e1.pkt # e2.pkt
         /\ e1.stage = e2.stage
         /\ e1.flow = e2.flow) => e1.rxq = e2.rxq

\* C10: for any interleaving of enqueues and polls on the input queue of
\* one interface, the packets are handed to napi_gro_receive in the order
\* in which they were appended to the queue: what was submitted is a
\* prefix of what was appended, and no packet is submitted twice.
FifoOrder ==
    /\ Len(rx_sub) <= Len(rx_enq)
    /\ \A i \in 1..Len(rx_sub) : rx_sub[i] = rx_enq[i]
    /\ \A i \in 1..Len(rx_sub) : \A j \in 1..Len(rx_sub) :
          i # j => rx_sub[i] # rx_sub[j]
    /\ rx_sub \o rx_inputq = rx_enq

\* C10 happens: a poll has submitted a packet while another is queued and
\* a third is still to be enqueued, and the packets were not appended in
\* the order of their arrival
FifoOrder_Witness ==
    /\ Len(rx_sub) >= 1
    /\ Len(rx_inputq) >= 1
    /\ rx_sub[1] # 1
    /\ rx_poll.pc = "loop"
    /\ \E p \in DOMAIN rx_pkts : rx_pkts[p].loc \in {"nic", "datapath", "rps"}

\* a call of vr_napi_poll has returned
PollReturned == rx_poll.pc = "idle" /\ rx_poll.budget >= 1

\* C11: for every budget B >= 1 one call of vr_napi_poll dequeues and
\* submits at most B packets; it calls napi_complete and returns 0 only
\* when it found the queue empty before reaching B packets, and otherwise
\* returns B after exactly B packets.
PollWithinBudget ==
    /\ rx_poll.budget >= 1 => rx_poll.quota <= rx_poll.budget
    /\ rx_poll.pc = "loop" => rx_poll.quota < rx_poll.budget
    /\ PollReturned =>
          /\ rx_poll.completed <=> rx_poll.ret = 0
          /\ rx_poll.completed =>
                rx_poll.drained /\ rx_poll.quota < rx_poll.budget
          /\ ~rx_poll.completed =>
                /\ rx_poll.ret = rx_poll.budget
                /\ rx_poll.quota = rx_poll.budget
                /\ ~rx_poll.drained

\* C11 happens: a call with budget 2 has returned 2 after two packets, with
\* a third packet left in the queue
PollWithinBudget_Witness ==
    /\ PollReturned
    /\ rx_poll.budget = 2
    /\ rx_poll.ret = 2
    /\ rx_poll.quota = 2
    /\ Len(rx_inputq) = 1
    /\ Len(rx_sub) = 2

\* no packet was appended since the last call of vr_napi_poll began
NoEnqueueSincePoll == Len(rx_enq) = rx_poll.enq0

\* C12, as amended: with no concurrent enqueue during the call,
\* vr_napi_poll returns 0 only if the queue is empty when it returns, and
\* it returns the budget B if and only if it processed B packets, that is
\* if the queue held at least B packets at entry; when the queue held
\* exactly B it returns B although the queue is empty.
PollReportsRemainingWork ==
    (PollReturned /\ NoEnqueueSincePoll) =>
        /\ rx_poll.ret = 0 => rx_inputq = <<>>
        /\ rx_inputq # <<>> => rx_poll.ret = rx_poll.budget
        /\ rx_poll.ret = rx_poll.budget <=> rx_poll.len0 >= rx_poll.budget
        /\ Len(rx_inputq) = rx_poll.len0 - rx_poll.quota

\* C12 happens: the queue held exactly as many packets as the budget; the
\* call returned the budget and left the queue empty
PollReportsRemainingWork_Witness ==
    /\ PollReturned
    /\ NoEnqueueSincePoll
    /\ rx_poll.len0 = rx_poll.budget
    /\ rx_poll.ret = rx_poll.budget
    /\ rx_inputq = <<>>

\* C12, as stated: with no concurrent enqueue during the call,
\* vr_napi_poll reports that work remains if and only if at least one
\* packet is still in the queue when it returns.
PollReportsExactly ==
    (PollReturned /\ NoEnqueueSincePoll) =>
        (rx_poll.ret = rx_poll.budget <=> rx_inputq # <<>>)

\* linux_if_del of the virtual interface has returned
Detached == rx_del.pc = "done"

\* C13: once linux_if_del of a virtual interface has completed, under any
\* interleaving with enqueues and polls, no packet of its queue is handed
\* to napi_gro_receive any more, no packet is left in the queue, and
\* vr_napi_poll does not run for the interface again.
TeardownSafe ==
    Detached =>
        /\ Len(rx_sub) = rx_del.sub0
        /\ rx_inputq = <<>>
        /\ rx_poll.pc = "idle"
        /\ ~rx_napi.listed

\* C18: linux_if_del of a virtual interface takes its steps in order: new
\* enqueues are no longer accepted once the napi is being disabled, the
\* napi is disabled and deleted before the queue is purged, and the queue
\* is purged before the device is released.
TeardownInOrder ==
    /\ rx_del.pc \notin {"none", "start"} => Len(rx_enq) = rx_del.enq0
    /\ rx_del.pc \in {"napi_deleted", "purged", "done"} =>
          /\ ~rx_napi.registered
          /\ rx_napi.sched /\ ~rx_napi.listed
          /\ rx_poll.pc = "idle"
    /\ rx_del.pc \in {"none", "start", "disabling", "disabled",
                      "napi_deleted", "purged"} =>
          rx_vifs[GroVif].os # "NULL"

----------------------------------------------------------------------------
(* Egress: what becomes of every buffer                                    *)

\* the buffers linux_if_tx has handled: the packet given to it (0) and
\* every segment made from it
TxBuffers == 0..(tx_st.nid - 1)
\* the ids of the buffers handed to the device
WireIds == [i \in 1..Len(tx_st.wire) |-> tx_st.wire[i].id]
\* how many times x occurs in the sequence q
Count(q, x) == Cardinality({i \in 1..Len(q) : q[i] = x})
\* how many terminal actions buffer b met: handed to the device, freed,
\* or enqueued for aggregation
Terminals(b) == Count(WireIds, b) + Count(tx_st.freed, b)
                + Count(tx_st.gro, b)
TxDone == tx_pc = "done" /\ ~tx_st.oops

\* C14: once linux_if_tx has returned, every buffer it handled (the packet
\* and every segment made from it) has met exactly one terminal action:
\* handed to the device, freed, or enqueued for aggregation; never two,
\* never none.
ExactlyOneTerminal ==
    TxDone => \A b \in TxBuffers : Terminals(b) = 1

\* C14, without the failure of skb_segment: every buffer meets exactly one
\* terminal action whenever skb_segment does not fail
ExactlyOneTerminal_NoSegmentFailure ==
    (TxDone /\ ~tx_env.segment_fails) => \A b \in TxBuffers : Terminals(b) = 1

\* no buffer is ever consumed twice, skb_segment failing or not
NeverTwoTerminals ==
    TxDone => \A b \in TxBuffers : Terminals(b) <= 1

\* skb_segment failed in linux_inet_fragment: the packet was neither sent,
\* freed nor enqueued
ExactlyOneTerminal_Leak ==
    /\ TxDone
    /\ tx_env.segment_fails
    /\ Terminals(0) = 0

----------------------------------------------------------------------------
(* Egress: skb_segment fails                                               *)

\* linux_if_tx took the packet to linux_xmit_segment
ToXmitSegment ==
    /\ tx_vif.os # "NULL"
    /\ ~("VP_FLAG_GRO" \in tx_skb.vp_flags /\ tx_vif.type = VIF_TYPE_VIRTUAL)
    /\ ~(/\ tx_type \in {VP_TYPE_IPOIP, VP_TYPE_IP}
         /\ "VP_FLAG_GSO" \in tx_skb.vp_flags
         /\ tx_skb.gso_size # 0
         /\ tx_vif.type = VIF_TYPE_PHYSICAL)
\* linux_xmit took it to linux_inet_fragment
ToInetFragment ==
    /\ ToXmitSegment
    /\ tx_vif.type = VIF_TYPE_PHYSICAL
    /\ tx_skb.len > tx_vif.mtu + tx_vif.hard_header_len
    /\ tx_skb.protocol = ETH_P_IP
\* linux_inet_fragment called skb_segment, which failed
SkbSegmentFailed ==
    /\ TxDone
    /\ ToInetFragment
    /\ ~(tx_skb.ip_summed = CHECKSUM_PARTIAL /\ tx_env.csum_help_fails)
    /\ tx_env.segment_fails

\* C15: when skb_segment fails in linux_inet_fragment, the original packet
\* is freed, the allocation failure is returned to the caller of
\* linux_inet_fragment, and no fragment is transmitted.
SegmentFailureFreesOriginal ==
    SkbSegmentFailed =>
        /\ Count(tx_st.freed, 0) = 1
        /\ tx_err = -ENOMEM
        /\ tx_st.wire = <<>>

\* C15, the part the code keeps: the failure is returned and nothing is
\* transmitted
SegmentFailureReturned ==
    SkbSegmentFailed => (tx_err = -ENOMEM /\ tx_st.wire = <<>>)

\* skb_segment failed and the original packet was not freed
SegmentFailure_NotFreed ==
    SkbSegmentFailed /\ Count(tx_st.freed, 0) = 0 /\ 0 \in tx_st.leaked
----------------------------------------------------------------------------
(* Egress: a list of segments that fails part-way                          *)

\* what the failing call returned to linux_xmit_segments: -ENOMEM from the
\* exit_xmit label of linux_xmit_segment, the result of dev_queue_xmit
\* otherwise
FirstFailure ==
    IF tx_env.pull_fails /\ tx_type = VP_TYPE_IPOIP THEN -ENOMEM ELSE 1

\* the segments call c of linux_xmit_segments transmitted
Sent(c) == c.w1 - c.w0

\* C16: for every call of linux_xmit_segments on a list of n segments: the
\* segments it handed to the device are the first t of the list, in order;
\* it returns 0 iff t = n; when t < n, segment t + 1 (the failing one) and
\* every later segment is freed exactly once and not transmitted, and the
\* value returned is the error of the failing segment.
PartialBatchFailure ==
    TxDone =>
        \A k \in 1..Len(tx_st.calls) :
            LET c == tx_st.calls[k]
                n == Len(c.segs)
                t == Sent(c)
            IN  /\ t \in 0..n
                /\ \A i \in 1..t : WireIds[c.w0 + i] = c.segs[i]
                /\ (c.ret = 0) <=> (t = n)
                /\ t < n =>
                       /\ c.ret = FirstFailure
                       /\ \A i \in (t + 1)..n :
                              /\ Count(tx_st.freed, c.segs[i]) = 1
                              /\ Count(WireIds, c.segs[i]) = 0

\* a list of three segments whose second failed: one on the wire, two
\* freed, a non-zero result
PartialBatchFailure_Witness ==
    /\ TxDone
    /\ \E k \in 1..Len(tx_st.calls) :
           LET c == tx_st.calls[k]
           IN  /\ Len(c.segs) = 3
               /\ Sent(c) = 1
               /\ c.ret # 0
               /\ Count(tx_st.freed, c.segs[3]) = 1
----------------------------------------------------------------------------
(* Egress: what the caller of linux_if_tx is told                          *)

\* the packet, or a part of it, was dropped: it was freed (or left behind)
\* without segments made from it, or a list of segments made from it was
\* not transmitted whole
Dropped ==
    /\ TxDone
    /\ \/ tx_st.leaked # {}
       \/ tx_st.nid = 1 /\ Count(tx_st.freed, 0) = 1
       \/ \E k \in 1..Len(tx_st.calls) :
              Sent(tx_st.calls[k]) < Len(tx_st.calls[k].segs)

\* C17: whenever the egress path drops the packet or a part of it,
\* linux_if_tx returns a value other than 0 to its caller.
NoSilentLoss == Dropped => tx_ret # 0

\* the packet was dropped and linux_if_tx returned 0
NoSilentLoss_Silent == Dropped /\ tx_ret = 0

\* what linux_if_tx returns, on every path
IfTxReturnsZero == tx_pc = "done" => tx_ret = 0

\* skb_gso_segment gave a list and linux_xmit_segments sent it whole
GsoSent ==
    /\ TxDone
    /\ "VP_FLAG_GSO" \in tx_skb.vp_flags
    /\ Len(tx_st.calls) = 1
    /\ tx_st.frags = <<>>
    /\ Len(tx_st.wire) = 3
----------------------------------------------------------------------------
(* The relay of linux_rx_handler                                           *)

\* the interface record v is in the table of an existing router, physical,
\* has its net_device, and is the rx_handler_data of that device
Registered(v) ==
    /\ v # NullVif
    /\ vrouter_get(v.rid) # "NULL"
    /\ v.type = VIF_TYPE_PHYSICAL
    /\ v.os # "NULL"
    /\ v.tap

\* packet p was relayed by linux_rx_handler and has arrived on pkt_rps_dev
\* on the destination core, the interface it came from being registered
RelayArrived(p) ==
    /\ rx_pkts[p].relayed >= 1
    /\ rx_pkts[p].dest.done
    /\ Registered(rx_pkts[p].dest.vif)

\* the receive routine of the interface p arrived on got p, and p was
\* relayed once
RoundTrip(p) ==
    /\ rx_pkts[p].rcv = rx_pkts[p].arrived
    /\ rx_pkts[p].relayed = 1
    /\ rx_pkts[p].drop = "none"

RelayRoundTrip_Toggled ==
    \E p \in DOMAIN rx_pkts :
        /\ RelayArrived(p)
        /\ ~rx_pkts[p].dest.perfr3
        /\ rx_pkts[p].loc = "dropped"
        /\ rx_pkts[p].rcv = -1

----------------------------------------------------------------------------
(* The relay: a tag that does not resolve                                  *)

\* what lines 809-815 found does not name a physical interface with a
\* device, in an existing router
Unresolvable(l) ==
    \/ l.router = "NULL"
    \/ l.vif = NullVif
    \/ l.vif.type # VIF_TYPE_PHYSICAL
    \/ l.vif.os = "NULL"

\* the packets appended to the input queue so far
Enqueued == {rx_enq[i] : i \in 1..Len(rx_enq)}

\* C20: a relayed packet whose tag linux_rx_handler cannot resolve on the
\* destination core (unknown router, unknown interface, interface not
\* physical, interface without a device) is dropped by vr_pfree with
\* VP_DROP_MISC, and is neither delivered to a vif_rx nor enqueued.
UnresolvedTagDropped ==
    \A p \in DOMAIN rx_pkts :
        (rx_pkts[p].lookup.done /\ Unresolvable(rx_pkts[p].lookup)) =>
            /\ rx_pkts[p].loc = "dropped"
            /\ rx_pkts[p].drop = "VP_DROP_MISC"
            /\ rx_pkts[p].rcv = -1
            /\ p \notin Enqueued

\* the interface was deleted between steering and delivery: the tag named
\* a physical interface whose vif_os was NULL, and the packet was dropped
UnresolvedTagDropped_Witness ==
    \E p \in DOMAIN rx_pkts :
        /\ rx_pkts[p].lookup.done
        /\ rx_pkts[p].lookup.router # "NULL"
        /\ rx_pkts[p].lookup.vif # NullVif
        /\ rx_pkts[p].lookup.vif.type = VIF_TYPE_PHYSICAL
        /\ rx_pkts[p].lookup.vif.os = "NULL"
        /\ rx_pkts[p].loc = "dropped"

\* the other three ways of not resolving
UnresolvedTag_UnknownRouter ==
    \E p \in DOMAIN rx_pkts :
        rx_pkts[p].lookup.done /\ rx_pkts[p].lookup.router = "NULL"
UnresolvedTag_UnknownInterface ==
    \E p \in DOMAIN rx_pkts :
        /\ rx_pkts[p].lookup.done /\ rx_pkts[p].lookup.router # "NULL"
        /\ rx_pkts[p].lookup.vif = NullVif
UnresolvedTag_NotPhysical ==
    \E p \in DOMAIN rx_pkts :
        /\ rx_pkts[p].lookup.done /\ rx_pkts[p].lookup.vif # NullVif
        /\ rx_pkts[p].lookup.vif.type = VIF_TYPE_VIRTUAL

\* the tag resolved and the handler was unregistered: vif is NULL at line
\* 869
RelayNullHandlerData ==
    \E p \in DOMAIN rx_pkts : rx_pkts[p].loc = "oops"
----------------------------------------------------------------------------
(* Steering modes changed in flight                                        *)

\* pkt_rps_dev_rx_handler dropped p, or handled it for the interface it
\* was steered for
HandledAsSteered(p) ==
    \/ rx_pkts[p].hop.out = "dropped"
    \/ rx_pkts[p].hop.vif = rx_pkts[p].steer.for

\* C21: a packet sent to pkt_rps_dev under vr_perfr1 or vr_perfr3 is, on
\* the destination core, dropped or handled for the interface it was
\* steered for, however the two settings change in between; it is never
\* delivered to or enqueued on another interface.
NoCrossModeMisread ==
    \A p \in DOMAIN rx_pkts : rx_pkts[p].hop.done => HandledAsSteered(p)

\* C21 with interface 0 being pkt0, as the comment of lines 522-528 takes
\* for granted
NoCrossModeMisread_Pkt0 ==
    rx_vifs[0].type # VIF_TYPE_PHYSICAL => NoCrossModeMisread

\* a frame relayed for physical interface 0 under vr_perfr3 was read as
\* steered by vr_perfr1 and put on the queue of the virtual interface
CrossModeMisread_Enqueued ==
    \E p \in DOMAIN rx_pkts :
        /\ rx_pkts[p].steer = [mode |-> "perfr3", for |-> 0]
        /\ rx_pkts[p].hop = [done |-> TRUE, as |-> "perfr1",
                             out |-> "inputq", vif |-> GroVif]

\* a packet steered for the virtual interface under vr_perfr1 was read as
\* relayed by vr_perfr3 and given to vif_rx of interface 0
CrossModeMisread_Delivered ==
    \E p \in DOMAIN rx_pkts :
        /\ rx_pkts[p].steer = [mode |-> "perfr1", for |-> GroVif]
        /\ rx_pkts[p].hop = [done |-> TRUE, as |-> "perfr3",
                             out |-> "datapath", vif |-> 0]

\* a packet steered under one setting and dropped under the other
CrossModeDropped ==
    \E p \in DOMAIN rx_pkts :
        /\ rx_pkts[p].hop.done
        /\ rx_pkts[p].hop.as # rx_pkts[p].steer.mode
        /\ rx_pkts[p].hop.out = "dropped"
----------------------------------------------------------------------------
(* Egress: which segments linux_xmit_segment rewrites                      *)

\* what fits the device
Room == tx_vif.mtu + tx_vif.hard_header_len

\* segment i on the wire has the outer header linux_xmit_segment writes:
\* the i-th unique identifier and the length of the segment
FixedUp(i) ==
    LET seg == tx_st.wire[i]
    IN  /\ seg.hdr[ETH_HLEN].id = UniqueIpId(i)
        /\ seg.hdr[ETH_HLEN].tot_len = ToU16(seg.len - ETH_HLEN)

\* C22: linux_xmit_segment rewrites the outer header of the segments that
\* fit the device (length <= MTU + header length) and are of the tunnel
\* type; a segment that is larger, or not of the tunnel type, goes to
\* linux_xmit as it is (a larger one is fragmented there, and its
\* fragments, which fit, are then rewritten).
FixupWhenItFits ==
    TxDone =>
        IF tx_type = VP_TYPE_IPOIP
        THEN /\ tx_st.gen = Len(tx_st.wire)
             /\ \A i \in 1..Len(tx_st.wire) :
                    tx_st.wire[i].len <= Room /\ FixedUp(i)
        ELSE /\ tx_st.gen = 0
             /\ tx_skb.len <= Room => tx_st.wire = <<tx_skb>>

\* a tunnelled packet larger than the device takes: it was fragmented
\* without being rewritten, and each of its fragments was rewritten
FixupWhenItFits_Witness ==
    /\ TxDone
    /\ tx_type = VP_TYPE_IPOIP
    /\ tx_skb.len > Room
    /\ Len(tx_st.wire) >= 2
    /\ tx_st.gen = Len(tx_st.wire)
    /\ \A i \in 1..Len(tx_st.wire) : FixedUp(i)

\* C22 as stated: the rewriting is for the segments larger than the
\* device takes, so a packet that fits is handed on as it is, and a
\* larger tunnelled one is rewritten before anything else is done with it
FixupWhenOversize ==
    TxDone =>
        /\ tx_skb.len <= Room => (tx_st.gen = 0 /\ tx_st.wire = <<tx_skb>>)
        /\ (tx_skb.len > Room /\ tx_type = VP_TYPE_IPOIP) =>
               tx_st.gen = Len(tx_st.wire) + 1
----------------------------------------------------------------------------
(* Egress: the outer header by outer protocol                              *)

\* the outer protocol of the packet given to linux_if_tx
OuterProto == tx_skb.hdr[ETH_HLEN].proto
\* the checksum of header h is the checksum of its contents
CsumConsistent(h) == h.check = ip_fast_csum(h)
\* a tunnelled packet that fits the device: linux_xmit_segment rewrites it
\* and hands it to the device
TunnelSent ==
    /\ TxDone
    /\ tx_type = VP_TYPE_IPOIP
    /\ tx_skb.len <= Room
    /\ Len(tx_st.wire) = 1

\* C23, first part: a tunnelled segment whose outer protocol is neither
\* UDP nor GRE is transmitted as it was given: length, identifier and
\* checksum of its outer header are those it came with.
OtherProtocolUnchanged ==
    (TunnelSent /\ OuterProto \notin {IPPROTO_UDP, IPPROTO_GRE}) =>
        tx_st.wire[1].hdr[ETH_HLEN] = tx_skb.hdr[ETH_HLEN]

\* C23, second part: for GRE the checksum of the transmitted outer header
\* is that of its contents, and nothing but the outer header differs from
\* the segment given
GreChecksumConsistent ==
    (TunnelSent /\ OuterProto = IPPROTO_GRE) =>
        /\ CsumConsistent(tx_st.wire[1].hdr[ETH_HLEN])
        /\ [tx_st.wire[1] EXCEPT !.hdr[ETH_HLEN] = tx_skb.hdr[ETH_HLEN]]
               = tx_skb

\* C23: both parts
OuterHeaderByProtocol == OtherProtocolUnchanged /\ GreChecksumConsistent

\* a tunnelled segment with another outer protocol was given a new
\* identifier and its checksum was left as it was: the transmitted header
\* does not have the checksum of its contents
OtherProtocol_StaleChecksum ==
    /\ TunnelSent
    /\ OuterProto \notin {IPPROTO_UDP, IPPROTO_GRE}
    /\ CsumConsistent(tx_skb.hdr[ETH_HLEN])
    /\ tx_st.wire[1].hdr[ETH_HLEN].id # tx_skb.hdr[ETH_HLEN].id
    /\ tx_st.wire[1].hdr[ETH_HLEN].check = tx_skb.hdr[ETH_HLEN].check
    /\ ~CsumConsistent(tx_st.wire[1].hdr[ETH_HLEN])
----------------------------------------------------------------------------
(* Segmentation: the segment size after the adjustment                     *)

\* linux_gso_xmit has run
GsoDone == tx_pc = "done" /\ Len(tx_st.gso) = 1
\* the headers every segment carries: what is in front of the inner IP
\* header, the inner IP header, and the TCP header if there is one
GsoHeaders ==
    tx_skb.mac_len + ip_hdr(tx_skb).ihl * 4
    + (IF ip_hdr(tx_skb).proto = IPPROTO_TCP THEN 20 ELSE 0)

\* C24: after the adjustment of linux_gso_xmit the segment size plus the
\* headers is at most MTU + header length of the device; the size did not
\* wrap (it is at most what it was); for UDP a size that was shrunk is a
\* multiple of 8; a size that fitted is unchanged.
GsoSizeFits ==
    GsoDone =>
        LET g == tx_st.gso[1]
        IN  /\ g + GsoHeaders <= Room
            /\ g <= tx_skb.gso_size
            /\ (ip_hdr(tx_skb).proto = IPPROTO_UDP /\ g # tx_skb.gso_size)
                   => g % 8 = 0
            /\ tx_skb.gso_size + GsoHeaders <= Room => g = tx_skb.gso_size

\* C24 where the headers alone fit the device and the size plus the
\* headers fits 16 bits
GsoSizeFits_InRange ==
    (GsoHeaders <= Room /\ tx_skb.gso_size + GsoHeaders < U16) => GsoSizeFits

\* the headers alone exceed what the device takes: the subtraction of
\* line 391 wrapped and the size grew
GsoSize_Wrapped ==
    /\ GsoDone
    /\ GsoHeaders > Room
    /\ tx_st.gso[1] > tx_skb.gso_size

\* the sum of line 364 wrapped: a size that does not fit was left as it
\* was
GsoSize_SumWrapped ==
    /\ GsoDone
    /\ tx_skb.gso_size + GsoHeaders >= U16
    /\ tx_st.gso[1] = tx_skb.gso_size
    /\ tx_st.gso[1] + GsoHeaders > Room

\* a size that was shrunk to fit, for UDP to a multiple of 8
GsoSize_Shrunk ==
    /\ GsoDone
    /\ ip_hdr(tx_skb).proto = IPPROTO_UDP
    /\ tx_st.gso[1] < tx_skb.gso_size
    /\ tx_st.gso[1] % 8 = 0
    /\ tx_st.gso[1] + GsoHeaders <= Room
    /\ Len(tx_st.wire) = 3
----------------------------------------------------------------------------
(* linux_xmit_segments: the order of the segments                          *)

\* the place of buffer id among the buffers dev_queue_xmit took
WirePos(id) == CHOOSE p \in 1..Len(WireIds) : WireIds[p] = id

\* C25: for every call of linux_xmit_segments, a segment of the list that
\* was transmitted was transmitted after every segment before it in the
\* list, each of which was transmitted too (none skipped), and every
\* buffer handed to the device was detached from its list (next is NULL).
InListOrder ==
    TxDone =>
        /\ \A k \in 1..Len(tx_st.calls) :
               LET segs == tx_st.calls[k].segs
               IN  \A i, j \in 1..Len(segs) :
                       (i < j /\ Count(WireIds, segs[j]) >= 1) =>
                           /\ Count(WireIds, segs[i]) = 1
                           /\ WirePos(segs[i]) < WirePos(segs[j])
        /\ \A p \in 1..Len(tx_st.wire) : tx_st.wire[p].next = 0

\* a list of three segments, all three transmitted
InListOrder_Witness ==
    /\ TxDone
    /\ \E k \in 1..Len(tx_st.calls) :
           LET c == tx_st.calls[k]
           IN  /\ Len(c.segs) = 3
               /\ c.ret = 0
               /\ \A i \in 1..3 : Count(WireIds, c.segs[i]) = 1
----------------------------------------------------------------------------
(* The queue and the poll task: wake-ups                                   *)

\* no vr_napi_poll is running and no enqueuer is between its
\* skb_queue_tail and its napi_schedule
PollQuiet == rx_poll.pc = "idle" /\ rx_pending = {}

\* C26: whenever the queue of the attached interface is not empty, no
\* poll is running and every enqueuer has made its napi_schedule call, the
\* poll task is scheduled (so the packets queued will be dequeued and
\* submitted to napi_gro_receive without a further enqueue).
NoLostWakeup ==
    (rx_inputq # <<>> /\ PollQuiet /\ rx_vifs[GroVif].type = VIF_TYPE_VIRTUAL)
        => rx_napi.sched /\ rx_napi.listed

\* a packet is queued, the poll that found the queue empty has called
\* napi_complete and returned, and every packet is queued or has reached
\* its end: nothing will schedule the poll task again
LostWakeup_Stuck ==
    /\ rx_inputq # <<>>
    /\ PollQuiet
    /\ ~rx_napi.sched
    /\ rx_poll.drained /\ rx_poll.completed
    /\ \A p \in DOMAIN rx_pkts :
           rx_pkts[p].loc \in {"inputq", "gro", "freed", "xmit", "dropped"}
----------------------------------------------------------------------------
(* Steering: how often a frame goes through the relay device               *)

\* packet p has reached the queue, GRO, the device it leaves by, or a drop
Settled(p) == rx_pkts[p].loc \in {"inputq", "gro", "xmit", "dropped", "freed"}

\* C27: while the steering configuration does not change, a frame is given
\* to the relay device at most once: linux_rx_handler relays it only under
\* vr_perfr3 and linux_enqueue_pkt_for_gro only under vr_perfr1 without
\* vr_perfr3, and a frame that came from the relay device is relayed by
\* neither.
RelayAtMostOnce ==
    \A p \in DOMAIN rx_pkts :
        /\ rx_pkts[p].hops <= 1
        /\ rx_pkts[p].hops = 1 =>
               rx_pkts[p].steer.mode =
                   (IF rx_cfg.perfr3 THEN "perfr3" ELSE "perfr1")

\* both packets went through the relay device once and reached their end,
\* the first of them the queue of the virtual interface or GRO
RelayAtMostOnce_Witness ==
    /\ \A p \in DOMAIN rx_pkts : rx_pkts[p].hops = 1 /\ Settled(p)
    /\ rx_pkts[1].hop.done
    /\ rx_pkts[1].loc \in {"inputq", "gro"}
----------------------------------------------------------------------------
(* The recursion of the egress path                                        *)

\* C28: every fragment linux_inet_fragment makes is no longer than the MTU
\* plus the header length of the device, every list of fragments is made
\* from the packet given to linux_if_tx and none from a fragment (one
\* pass), and the nesting of linux_xmit -> linux_inet_fragment does not
\* grow beyond that.
FragmentsFit ==
    tx_pc = "done" =>
        /\ ~tx_st.deep
        /\ \A k \in 1..Len(tx_st.frags) :
               /\ tx_st.depth[k] = 0
               /\ \A i \in 1..Len(tx_st.frags[k]) :
                      tx_st.frags[k][i].len <= Room

\* a packet was split into three or more fragments, each of which fitted
\* and was taken by the device
FragmentsFit_Witness ==
    /\ TxDone
    /\ Len(tx_st.frags) = 1
    /\ Len(Frags) >= 3
    /\ Len(tx_st.wire) = Len(Frags)
    /\ \A i \in 1..Len(Frags) : Frags[i].len <= Room

\* the headers are longer than the MTU: the fragment made is the packet
\* itself and is fragmented again, without end
FragmentedAgain ==
    /\ tx_pc = "done"
    /\ tx_st.deep
    /\ Len(tx_st.frags) = MaxDepth
    /\ \A k \in 1..Len(tx_st.frags) :
           /\ Len(tx_st.frags[k]) = 1
           /\ tx_st.frags[k][1].len = tx_skb.len
----------------------------------------------------------------------------
(* The receive hook and the rtnl lock                                      *)

\* C29, the lock: a call takes the lock only if it found it free, holds it
\* from then until it releases it, and the calling context holds the lock
\* at the return exactly if it held it at the entry.
TapLockBalanced ==
    /\ tap_t.i_locked => tap_t.entry # "caller"
    /\ (tap_t.i_locked /\ tap_t.pc \in {"handler", "unlock"})
           => tap_rtnl = "caller"
    /\ tap_t.pc = "idle" =>
           (tap_t.exit = "caller") <=> (tap_t.entry = "caller")

\* C29: the lock is taken and released as above, and the handler is
\* registered or unregistered only while the calling context holds the
\* lock.
TapUnderLock ==
    /\ TapLockBalanced
    /\ tap_t.did => tap_t.did_owner = "caller"

\* another thread held the lock when the call tested it: the call did not
\* take the lock and registered the handler while that thread held it
TapUnderLock_OtherHeld ==
    /\ tap_t.pc = "idle"
    /\ tap_t.op = "add"
    /\ tap_t.did
    /\ ~tap_t.i_locked
    /\ tap_t.entry = "other"
    /\ tap_t.did_owner = "other"
    /\ tap_dev.rx_handler = "linux_rx_handler"

\* the other thread released the lock after the test: the handler was
\* unregistered with the lock held by nobody
TapUnderLock_NobodyHeld ==
    /\ tap_t.pc = "idle"
    /\ tap_t.op = "del"
    /\ tap_t.did
    /\ ~tap_t.i_locked
    /\ tap_t.did_owner = "none"
----------------------------------------------------------------------------
(* The poll task with a budget of 0                                        *)

\* C30: a call of vr_napi_poll with budget 0 dequeues no packet and gives
\* none to napi_gro_receive, whatever the length of the queue when it is
\* called.
ZeroBudgetNoPacket ==
    rx_poll.budget = 0 => rx_poll.quota = 0 /\ rx_sub = <<>>

\* a call with budget 0 found three packets queued, gave all three to
\* napi_gro_receive, called napi_complete and returned 0
ZeroBudget_Drained ==
    /\ rx_poll.pc = "idle"
    /\ rx_poll.budget = 0
    /\ rx_poll.len0 = 3
    /\ rx_poll.quota = 3
    /\ rx_poll.completed
    /\ rx_poll.ret = 0
    /\ Len(rx_sub) = 3
----------------------------------------------------------------------------
(* linux_inet_fragment: the fragment size is well defined                  *)

\* linux_if_tx has run and linux_xmit sent the packet to
\* linux_inet_fragment
SentToFragment == tx_pc = "done" /\ ToInetFragment

\* what lines 165-193 compute for the packet given to linux_if_tx, and
\* the parts of the computation: frag_size after line 183 (below 0 when
\* the unsigned subtraction of line 166 wrapped), num_frags and
\* last_frag_len
FirstFragSize ==
    FragSize(tx_vif.mtu, tx_skb.mac_len, ip_hdr(tx_skb).ihl * 4,
             Payload(tx_skb))
FirstFragSize0 ==
    AndNot7(tx_vif.mtu - tx_skb.mac_len - ip_hdr(tx_skb).ihl * 4)
FirstNumFrags == UDiv(Payload(tx_skb), FirstFragSize0)
FirstLastFragLen == UMod(Payload(tx_skb), FirstFragSize0)

\* C31: for every packet linux_xmit sends to linux_inet_fragment no
\* division is by 0 (num_frags is at least 1 when the short tail is
\* corrected), the unsigned frag_size does not wrap (it stays between 0
\* and the room the MTU leaves after the headers), and the final fragment
\* size is at least 8.
FragSizeWellDefined ==
    SentToFragment =>
        /\ ~FirstFragSize.oops
        /\ FirstFragSize0 >= 8
        /\ (FirstLastFragLen # 0 /\ FirstLastFragLen < 64)
               => FirstNumFrags >= 1
        /\ FirstFragSize.size >= 8
        /\ FirstFragSize.size
               <= tx_vif.mtu - tx_skb.mac_len - ip_hdr(tx_skb).ihl * 4

\* a packet that was split with the short tail corrected: the fragment
\* size handed to skb_segment is smaller than the room, and at least 8
FragSizeWellDefined_Witness ==
    /\ SentToFragment
    /\ TxDone
    /\ Len(tx_st.mss) = 1
    /\ FirstLastFragLen # 0 /\ FirstLastFragLen < 64
    /\ tx_st.mss[1] = FirstFragSize.size
    /\ tx_st.mss[1] >= 8
    /\ tx_st.mss[1] < FirstFragSize0

\* the MTU leaves fewer than 8 bytes after the headers: frag_size is 0
\* and line 184 divides by it
FragSize_Zero ==
    /\ SentToFragment
    /\ FirstFragSize0 = 0
    /\ tx_st.oops

\* the headers are longer than the MTU: line 166 wraps, num_frags is 0 and
\* line 187 divides by it
FragSize_NumFragsZero ==
    /\ SentToFragment
    /\ FirstFragSize0 < 0
    /\ FirstNumFrags = 0
    /\ FirstLastFragLen # 0 /\ FirstLastFragLen < 64
    /\ tx_st.oops

\* the correction of the short tail is larger than frag_size: lines
\* 187-192 wrap and the size handed to skb_segment is what 16 bits keep
\* of it
FragSize_CorrectionWrapped ==
    /\ SentToFragment
    /\ FirstFragSize0 >= 8
    /\ FirstNumFrags >= 1
    /\ FirstFragSize.size < 0
    /\ Len(tx_st.mss) >= 1
    /\ tx_st.mss[1] > tx_vif.mtu
====
